---- MODULE Spec2Model ----
(***************************************************************************)
(* Kanpe: live-caption and AI-assist client (React/zustand front end of a  *)
(* Tauri application) together with the persisted schema it reads.         *)
(*                                                                         *)
(* The module holds several specifications over one set of variables:      *)
(*   SpecCaption  the caption log of the session store (addCaption)        *)
(*   SpecSession  session lifecycle: start/stop commands, recording-state  *)
(*                events and the stores they update                        *)
(*   SpecDb       the persisted tables (sessions, captions, ai_logs)       *)
(*   SpecAi       the assist pane of the expanded overlay (send_ai_query)  *)
(* Each specification leaves the variables of the others unchanged.        *)
(***************************************************************************)
EXTENDS Integers, Sequences, FiniteSets, TLC

(***************************************************************************)
(* Bounds of the model                                                     *)
(***************************************************************************)
\* utterances each STT source produces
MaxUtt == 1
\* interim hypotheses the provider sends for one utterance
MaxRev == 2
\* sessions the backend creates
MaxSessions == 1
\* sessions ever inserted into table sessions in SpecDb
MaxDbSessions == 2
\* events in flight from the backend to the window
MaxQueue == 1
\* get_sessions calls in flight
MaxRefresh == 1
\* caption events the backend emits in a run of SpecSession
MaxCaptions == 1
\* rows ever inserted into table captions, and into table ai_logs
MaxRows == 1
\* pause_recording / resume_recording commands the overlay issues
MaxToggles == 2
\* reconnection attempts of the STT client before it gives up
MaxRetries == 1
\* times stop_recording announces the stop of a session already stopped
MaxRestops == 1
\* audio frames captured in a run of SpecStt
MaxFrames == 2
\* frames the replay buffer of the STT client holds
ReplayBound == 1

\* effect runs (mounts) of the listening components
MaxMounts == 1

\* sample buffers ScreenCaptureKit delivers to the capture helper
MaxBuffers == 2
\* converted buffers the pipe to the parent process holds
PipeCapacity == 1
\* sessions in the list given to buildSessionGroups
MaxListed == 3
\* the latest instant a created_at names
MaxInstant == 3
\* instants of one local day
InstantsPerDay == 2
\* handler invocations of the assist pane that can be awaiting at once
MaxAiCalls == 1
\* user messages in the chat of the assist pane
MaxClicks == 1
\* get_sessions calls of SpecRefresh
MaxListCalls == 3
\* route ids and effect runs of the session detail page
MaxRouteIds == 2
MaxLoads == 3
\* sessions and caption events of SpecSwitch, where one session follows another
MaxSwitchSessions == 2
MaxSwitchCaptions == 2
\* the same two bounds in SpecAiRace, where handlers overlap
MaxRaceCalls == 2
MaxRaceClicks == 2

(***************************************************************************)
(* Values                                                                  *)
(***************************************************************************)
Sources == {"MIC", "SYS"}

Statuses == {"interim", "final"}

\* session ids are opaque strings in the program; here 1..MaxSessions
SessionIds == 1..MaxSessions

\* the ids of the rows of table sessions in SpecDb
DbSessionIds == 1..MaxDbSessions

\* string | null : the null of activeSessionId and of get_active_session_id
Null == 0

VARIABLES
    captions,        \* session-store: captions (the live caption log)
    stt,             \* per source: position of the STT provider's stream
    arrived,         \* SpecCaption: caption events applied since the log was
                     \* last cleared
    activeSessionId, \* session-store: activeSessionId
    storeSessions,   \* session-store: sessions (id -> is_active)
    recording,       \* overlay-store: recording
    connection,      \* overlay-store: connection
    startError,      \* SessionsPage: startError
    startCall,       \* handleStartKanpe: the start_recording call in flight
    stopCall,        \* handleStopKanpe: its position and session id
    refreshPending,  \* get_sessions calls the backend has not answered
    refreshResp,     \* get_sessions answers on their way to the window
    eventQ,          \* events emitted by the backend, not yet delivered
    dbSessions,      \* table sessions (id -> row)
    nextSessionId,   \* the id the backend gives the next session
    backendRec,      \* RecordingState of the active session in the backend
    emitted,         \* number of caption events the backend has emitted
    dbCaptions,      \* table captions
    dbAiLogs,        \* table ai_logs
    captionSeq,      \* AUTOINCREMENT counter of captions.id
    aiLogSeq,        \* AUTOINCREMENT counter of ai_logs.id
    dbError,         \* outcome of the last statement on the tables
    messages,        \* OverlayExpanded: messages (the chat)
    isGenerating,    \* OverlayExpanded: isGenerating
    inputValue,      \* OverlayExpanded: inputValue
    aiCall,          \* OverlayExpanded: the handler invocations in progress
    toggleCall,      \* OverlayApp toggleRecording: the command in flight
    overlayStop,     \* OverlayApp handleStopSession: its position and id
    hydrateCall,     \* OverlayApp hydrateActiveSession: the call in flight
    processed,       \* recording-state events the overlay has processed
    sttConn,         \* SttStreamClient: state of the STT connection
    retries,         \* SttStreamClient: reconnection attempts made
    replay,          \* SttStreamClient: frames held in the replay buffer
    frames,          \* frames captured / forwarded to the provider / lost
    effects,         \* the runs of the listener effects, in mount order
    currentStep,     \* ScreenOnboarding: index of the step shown
    permissions,     \* ScreenOnboarding: the state held for each permission
    loading,         \* ScreenOnboarding: a request or recheck is running
    permCall,        \* ScreenOnboarding: position of that handler
    onboardingComplete, \* app-store: set by the wizard's onComplete
    captureState,    \* capture helper: main() before / in / after the run loop
    converter,       \* AudioCaptureOutput.converter: "nil" or "set"
    captureLog,      \* what became of each sample buffer delivered
    stdout,          \* the buffers written to standard output
    stderr,           \* the messages written to standard error
    consumed,  \* parent process: buffers it has read from the pipe
    writer,  \* capture helper: the write to standard output in progress
    listInput,  \* ScreenSessionList: the sessions array passed to buildSessionGroups
    listNow,  \* ScreenSessionList: the instant `new Date()` gave
    listSessions,  \* ScreenSessionList: the sessions array after the call
    listGroups,  \* ScreenSessionList: the groups buildSessionGroups returned
    routeId,  \* SessionDetailPage: the id of useParams, 0 when the route has none
    detailSession,  \* SessionDetailPage: useState session
    detailLoading,  \* SessionDetailPage: useState loading
    loads,  \* SessionDetailPage: the runs of the load effect, oldest first
    listCalls  \* SessionsPage: the get_sessions calls of refreshSessions, in the order of issue

captionVars == <<captions, stt, arrived>>

storeVars == <<activeSessionId, storeSessions, recording, connection, startError>>

callVars == <<startCall, stopCall, refreshPending, refreshResp>>

backendVars == <<dbSessions, nextSessionId, backendRec, emitted>>

tableVars == <<dbCaptions, dbAiLogs, captionSeq, aiLogSeq, dbError>>

aiVars == <<messages, isGenerating, inputValue, aiCall>>

overlayVars == <<toggleCall, overlayStop, hydrateCall, processed>>

sttVars == <<sttConn, retries, replay, frames>>

\* the variables of the specifications added after the first four
listenerVars == <<effects>>

wizardVars == <<currentStep, permissions, loading, permCall, onboardingComplete>>

captureVars == <<captureState, converter, captureLog, stdout, stderr>>

deliveryVars == <<consumed, writer>>

listVars == <<listInput, listNow, listSessions, listGroups>>

detailVars == <<routeId, detailSession, detailLoading, loads>>

refreshVars == <<listCalls>>

\* the variables of the listener effects, the wizard and the capture helper
lateVars == <<listenerVars, wizardVars, captureVars,
             deliveryVars,
             listVars,
             detailVars,
             refreshVars>>

restVars == <<overlayVars, sttVars, lateVars>>

vars == <<captionVars, storeVars, callVars, eventQ, backendVars, tableVars, aiVars,
          restVars>>

(***************************************************************************)
(* Caption events.  The text of an event is modelled by the pair           *)
(* <<utterance, revision>>: revision 0 is the final transcript, revisions  *)
(* 1.. are the successive interim hypotheses, so that all texts of one     *)
(* source are distinct.  The time field is carried by the program but      *)
(* never read by the store and is left out.                                *)
(***************************************************************************)
CaptionEvent(src, st, txt) == [source |-> src, status |-> st, text |-> txt]

InterimEvent(s) == CaptionEvent(s, "interim", <<stt[s].utt, stt[s].rev + 1>>)

FinalEvent(s) == CaptionEvent(s, "final", <<stt[s].utt, 0>>)

Last(seq) == seq[Len(seq)]

ReplaceLast(seq, e) == [seq EXCEPT ![Len(seq)] = e]

\* the earlier store: every event is appended
AddCaptionAppendOnly(caps, caption) == Append(caps, caption)

\* the new caption is put in front of the log
AddCaptionInFront(caps, caption) == <<caption>> \o caps

\* the tail is overwritten whatever its status
AddCaptionReplaceAny(caps, caption) ==
    IF Len(caps) > 0 THEN ReplaceLast(caps, caption) ELSE Append(caps, caption)

\* session-store.ts addCaption: an interim tail is overwritten in place,
\* otherwise the event is pushed
AddCaption(caps, caption) ==
    LET hasInterimTail == Len(caps) > 0 /\ Last(caps).status = "interim"
    IN  IF hasInterimTail THEN ReplaceLast(caps, caption)
                          ELSE Append(caps, caption)

\* session-store.ts clearCaptions
ClearedCaptions == <<>>

\* string | null : the null of startError
NoError == "none"

\* what handleStartKanpe could have changed: the session store's fields
StoreSnapshot == [captions |-> captions, activeSessionId |-> activeSessionId,
                  sessions |-> storeSessions]

NoSnapshot == [captions |-> <<>>, activeSessionId |-> Null, sessions |-> <<>>]

\* no start_recording call in flight.  before is the store as it was when
\* the handler was entered, clean says no other handler has run since.
StartIdle == [phase |-> "idle", id |-> Null, err |-> NoError,
              before |-> NoSnapshot, clean |-> FALSE]

NoCall == [phase |-> "idle", id |-> Null]

AiSlots == 1..MaxAiCalls

RaceSlots == 1..MaxRaceCalls

\* no invocation of handleActionClick / handleSendFreeform in this slot.
\* action is the quick action ("none": free-form), sid the session id the
\* handler holds, outcome what the awaited call brought, llm what the
\* provider did, sent the number of sendAiQuery calls the handler has made.
AiIdle == [phase |-> "idle", action |-> "none", sid |-> Null,
           outcome |-> "none", llm |-> "none", sent |-> 0]

\* toggleRecording is not running; n counts the commands it has issued
ToggleIdle == [phase |-> "idle", id |-> Null, n |-> 0]

\* handleStopSession is not running; outcome is how its last run ended
StopIdle == [phase |-> "idle", id |-> Null, outcome |-> "none"]

\* no audio frame captured yet
NoFrames == [captured |-> 0, forwarded |-> 0, lost |-> 0, replayed |-> 0]

\* no write to standard output is waiting for room in the pipe
WriterIdle == [blocked |-> FALSE, fault |-> "none"]

\* no rows: the function with the empty domain
NoRows == [id \in {} |-> FALSE]

\* the window starts with the connection shown as up
OverlayStateConnected == [recording |-> "paused", connection |-> "connected"]

\* overlay-store.ts: the state useOverlayStore is created with
InitialOverlayState == [recording |-> "paused", connection |-> "disconnected"]

\* screen-onboarding.tsx 27-55: the steps of the wizard, in order
\* microphone, screen-audio, overlay
Steps == 0..2

Init ==
    /\ captions = <<>>
    /\ stt = [s \in Sources |-> [utt |-> 1, rev |-> 0]]
    /\ arrived = <<>>
    /\ activeSessionId = Null
    /\ storeSessions = NoRows
    /\ recording = InitialOverlayState.recording
    /\ connection = InitialOverlayState.connection
    /\ startError = NoError
    /\ startCall = StartIdle
    /\ stopCall = NoCall
    /\ refreshPending = 0
    /\ refreshResp = {}
    /\ eventQ = <<>>
    /\ dbSessions = NoRows
    /\ nextSessionId = 1
    /\ backendRec = "idle"
    /\ emitted = 0
    /\ dbCaptions = {}
    /\ dbAiLogs = {}
    /\ captionSeq = 0
    /\ aiLogSeq = 0
    /\ dbError = NoError
    /\ messages = <<>>
    /\ isGenerating = FALSE
    /\ inputValue = ""
    /\ aiCall = [k \in AiSlots \cup RaceSlots |-> AiIdle]
    /\ toggleCall = ToggleIdle
    /\ overlayStop = StopIdle
    /\ hydrateCall = NoCall
    /\ processed = <<>>
    /\ sttConn = "disconnected"
    /\ retries = 0
    /\ replay = 0
    /\ frames = NoFrames
    /\ effects = <<>>
    /\ currentStep = 0
    /\ permissions = [i \in Steps |-> "unknown"]
    /\ loading = FALSE
    /\ permCall = "idle"
    /\ onboardingComplete = FALSE
    /\ captureState = "starting"
    /\ converter = "nil"
    /\ captureLog = <<>>
    /\ stdout = <<>>
    /\ stderr = <<>>
    /\ consumed = 0
    /\ writer = WriterIdle
    /\ listInput = <<>>
    /\ listNow = 0
    /\ listSessions = <<>>
    /\ listGroups = <<>>
    /\ routeId = Null
    /\ detailSession = [id |-> Null]
    /\ detailLoading = TRUE
    /\ loads = <<>>
    /\ listCalls = <<>>

(***************************************************************************)
(* SpecCaption: caption events of both sources reach the store in any      *)
(* interleaving                                                            *)
(***************************************************************************)
\* use-tauri-events.ts onCaption handler
OnCaption(event) == captions' = AddCaption(captions, event)

otherVars == <<storeVars, callVars, eventQ, backendVars, tableVars, aiVars, restVars>>

InterimArrives(s) ==
    /\ stt[s].utt <= MaxUtt
    /\ stt[s].rev < MaxRev
    /\ OnCaption(InterimEvent(s))
    /\ arrived' = Append(arrived, InterimEvent(s))
    /\ stt' = [stt EXCEPT ![s].rev = @ + 1]
    /\ UNCHANGED otherVars

FinalArrives(s) ==
    /\ stt[s].utt <= MaxUtt
    /\ OnCaption(FinalEvent(s))
    /\ arrived' = Append(arrived, FinalEvent(s))
    /\ stt' = [stt EXCEPT ![s] = [utt |-> @.utt + 1, rev |-> 0]]
    /\ UNCHANGED otherVars

ClearCaptions ==
    /\ captions # <<>>
    /\ captions' = ClearedCaptions
    /\ arrived' = <<>>
    /\ UNCHANGED <<stt, otherVars>>

NextCaption ==
    \/ \E s \in Sources : InterimArrives(s)
    \/ \E s \in Sources : FinalArrives(s)
    \/ ClearCaptions

SpecCaption == Init /\ [][NextCaption]_vars

(***************************************************************************)
(* Events and commands of the backend.  The Rust side is not part of the   *)
(* sources; its commands follow the session state machine of the           *)
(* specification (start fails while a session is active, stop discards     *)
(* pending interims and marks the session inactive).                       *)
(***************************************************************************)
RecordingStateEvent(st, id) ==
    [kind |-> "recording-state", state |-> st, sessionId |-> id, payload |-> Null]

CaptionMessage(event) ==
    [kind |-> "caption", state |-> "none", sessionId |-> Null, payload |-> event]

\* sessions.is_active = 1
ActiveIds == {id \in DOMAIN dbSessions : dbSessions[id].is_active}

\* get_active_session_id
BackendActiveSessionId ==
    IF ActiveIds = {} THEN Null ELSE CHOOSE id \in ActiveIds : TRUE

\* a row of table sessions as start_recording inserts it
NewSessionRow == [is_active |-> TRUE, ai_assists |-> 0]

\* get_sessions: the Session list the window receives (id, is_active)
SessionList == [id \in DOMAIN dbSessions |-> dbSessions[id].is_active]

\* stop(): an utterance that has only interim text is discarded
DiscardPending(pos) ==
    IF pos.rev > 0 THEN [utt |-> pos.utt + 1, rev |-> 0] ELSE pos

\* start_recording, no session being active: the session row is inserted,
\* the state machine enters Recording and the state is announced
BeginSession ==
    /\ dbSessions' = (nextSessionId :> NewSessionRow) @@ dbSessions
    /\ nextSessionId' = nextSessionId + 1
    /\ backendRec' = "recording"
    /\ eventQ' = Append(eventQ, RecordingStateEvent("recording", nextSessionId))

\* stop(): the session is marked inactive and the state is announced
EndSession(sid) ==
    /\ dbSessions' = [dbSessions EXCEPT ![sid].is_active = FALSE]
    /\ backendRec' = "idle"
    /\ eventQ' = Append(eventQ, RecordingStateEvent("stopped", sid))

\* start_recording while a session is active
StartRecordingRejected ==
    /\ startCall.phase = "pending"
    /\ ActiveIds # {}
    /\ startCall' = [startCall EXCEPT !.phase = "err", !.err = "SessionAlreadyActive"]
    /\ UNCHANGED <<captionVars, storeVars, stopCall, refreshPending, refreshResp,
                   eventQ, backendVars>>
    /\ UNCHANGED <<tableVars, aiVars, restVars>>

\* start_recording fails on the capture device
StartRecordingFails ==
    /\ startCall.phase = "pending"
    /\ ActiveIds = {}
    /\ startCall' = [startCall EXCEPT !.phase = "err", !.err = "DeviceUnavailable"]
    /\ UNCHANGED <<captionVars, storeVars, stopCall, refreshPending, refreshResp,
                   eventQ, backendVars>>
    /\ UNCHANGED <<tableVars, aiVars, restVars>>

\* start_recording creates the session and announces it
StartRecordingSucceeds ==
    /\ startCall.phase = "pending"
    /\ ActiveIds = {}
    /\ nextSessionId <= MaxSessions
    /\ Len(eventQ) < MaxQueue
    /\ BeginSession
    /\ UNCHANGED emitted
    /\ startCall' = [startCall EXCEPT !.phase = "ok", !.id = nextSessionId]
    /\ UNCHANGED <<captionVars, storeVars, stopCall, refreshPending, refreshResp>>
    /\ UNCHANGED <<tableVars, aiVars, restVars>>

\* get_active_session_id answers handleStopKanpe
GetActiveSessionIdReturns ==
    /\ stopCall.phase = "hydrating"
    /\ stopCall' = [phase |-> "hydrated", id |-> BackendActiveSessionId]
    /\ UNCHANGED <<captionVars, storeVars, startCall, refreshPending, refreshResp,
                   eventQ, backendVars>>
    /\ UNCHANGED <<tableVars, aiVars, restVars>>

\* stop_recording: stopping a session that is not active is a no-op
StopRecording ==
    /\ stopCall.phase = "stopping"
    /\ IF stopCall.id \in ActiveIds
          THEN /\ Len(eventQ) < MaxQueue
               /\ EndSession(stopCall.id)
               /\ stt' = [s \in Sources |-> DiscardPending(stt[s])]
          ELSE UNCHANGED <<dbSessions, backendRec, stt, eventQ>>
    /\ stopCall' = [stopCall EXCEPT !.phase = "stopped"]
    /\ UNCHANGED <<captions, arrived, storeVars, startCall, refreshPending,
                   refreshResp, nextSessionId, emitted>>
    /\ UNCHANGED <<tableVars, aiVars, restVars>>

\* get_sessions reads the table
GetSessionsReturns ==
    /\ refreshPending > 0
    /\ refreshPending' = refreshPending - 1
    /\ refreshResp' = refreshResp \cup {SessionList}
    /\ UNCHANGED <<captionVars, storeVars, startCall, stopCall, eventQ, backendVars>>
    /\ UNCHANGED <<tableVars, aiVars, restVars>>

\* get_sessions fails: refreshSessions logs the error and sets nothing
GetSessionsFails ==
    /\ refreshPending > 0
    /\ refreshPending' = refreshPending - 1
    /\ UNCHANGED <<captionVars, storeVars, startCall, stopCall, refreshResp,
                   eventQ, backendVars>>
    /\ UNCHANGED <<tableVars, aiVars, restVars>>

\* the STT pipeline of the recording session sends an interim transcript
EmitInterim(s) ==
    /\ backendRec = "recording"
    /\ emitted < MaxCaptions
    /\ Len(eventQ) < MaxQueue
    /\ stt[s].utt <= MaxUtt
    /\ stt[s].rev < MaxRev
    /\ eventQ' = Append(eventQ, CaptionMessage(InterimEvent(s)))
    /\ stt' = [stt EXCEPT ![s].rev = @ + 1]
    /\ emitted' = emitted + 1
    /\ UNCHANGED <<captions, arrived, storeVars, callVars, dbSessions,
                   nextSessionId, backendRec>>
    /\ UNCHANGED <<tableVars, aiVars, restVars>>

\* the STT pipeline of the recording session sends a final transcript
EmitFinal(s) ==
    /\ backendRec = "recording"
    /\ emitted < MaxCaptions
    /\ Len(eventQ) < MaxQueue
    /\ stt[s].utt <= MaxUtt
    /\ eventQ' = Append(eventQ, CaptionMessage(FinalEvent(s)))
    /\ stt' = [stt EXCEPT ![s] = [utt |-> @.utt + 1, rev |-> 0]]
    /\ emitted' = emitted + 1
    /\ UNCHANGED <<captions, arrived, storeVars, callVars, dbSessions,
                   nextSessionId, backendRec>>
    /\ UNCHANGED <<tableVars, aiVars, restVars>>

(***************************************************************************)
(* The window: SessionsPage with useTauriEvents                            *)
(***************************************************************************)
\* room for one more get_sessions call
RefreshRoom == refreshPending + Cardinality(refreshResp) < MaxRefresh

\* another handler has changed the store while handleStartKanpe is awaiting
Touch == startCall' = [startCall EXCEPT !.clean = FALSE]

\* the rejection is ignored: activeSessionId is assigned whatever came back
ActiveIdAfterStartUnchecked(call, current) == call.id

\* sessions.tsx 82-83: the assignment runs only when the await did not throw
ActiveIdAfterStart(call, current) ==
    IF call.phase = "ok" THEN call.id ELSE current

\* sessions.tsx handleStartKanpe, up to the await of startRecording
HandleStartKanpe ==
    /\ startCall.phase = "idle"
    /\ startError' = NoError
    /\ captions' = ClearedCaptions
    /\ startCall' = [phase |-> "pending", id |-> Null, err |-> NoError,
                     before |-> StoreSnapshot, clean |-> TRUE]
    /\ UNCHANGED <<stt, arrived, activeSessionId, storeSessions, recording,
                   connection, stopCall, refreshPending, refreshResp, eventQ,
                   backendVars>>
    /\ UNCHANGED <<tableVars, aiVars, restVars>>

\* handleStartKanpe after startRecording resolved: refreshSessions is called
StartResolved ==
    /\ startCall.phase = "ok"
    /\ RefreshRoom
    /\ activeSessionId' = ActiveIdAfterStart(startCall, activeSessionId)
    /\ refreshPending' = refreshPending + 1
    /\ startCall' = StartIdle
    /\ UNCHANGED <<captionVars, storeSessions, recording, connection, startError,
                   stopCall, refreshResp, eventQ, backendVars>>
    /\ UNCHANGED <<tableVars, aiVars, restVars>>

\* handleStartKanpe after startRecording rejected: the catch block
StartRejected ==
    /\ startCall.phase = "err"
    /\ activeSessionId' = ActiveIdAfterStart(startCall, activeSessionId)
    /\ startError' = startCall.err
    /\ startCall' = StartIdle
    /\ UNCHANGED <<captionVars, storeSessions, recording, connection,
                   stopCall, refreshPending, refreshResp, eventQ, backendVars>>
    /\ UNCHANGED <<tableVars, aiVars, restVars>>

\* refreshSessions: setSessions(list)
RefreshReturns ==
    /\ \E list \in refreshResp :
          /\ storeSessions' = list
          /\ refreshResp' = refreshResp \ {list}
    /\ Touch
    /\ UNCHANGED <<captionVars, activeSessionId, recording, connection, startError,
                   stopCall, refreshPending, eventQ, backendVars>>
    /\ UNCHANGED <<tableVars, aiVars, restVars>>

\* the stop button is rendered for the active session of the list
StopButtonShown == \E id \in DOMAIN storeSessions : storeSessions[id]

\* sessions.tsx handleStopKanpe: activeSessionId ?? (await getActiveSessionId())
HandleStopKanpe ==
    /\ stopCall.phase = "idle"
    /\ StopButtonShown
    /\ stopCall' = IF activeSessionId # Null
                      THEN [phase |-> "stopping", id |-> activeSessionId]
                      ELSE [phase |-> "hydrating", id |-> Null]
    /\ UNCHANGED <<captionVars, storeVars, startCall, refreshPending, refreshResp,
                   eventQ, backendVars>>
    /\ UNCHANGED <<tableVars, aiVars, restVars>>

\* handleStopKanpe: if (!sessionId) return
StopHydrated ==
    /\ stopCall.phase = "hydrated"
    /\ stopCall' = IF stopCall.id = Null THEN NoCall
                                         ELSE [stopCall EXCEPT !.phase = "stopping"]
    /\ UNCHANGED <<captionVars, storeVars, startCall, refreshPending, refreshResp,
                   eventQ, backendVars>>
    /\ UNCHANGED <<tableVars, aiVars, restVars>>

\* handleStopKanpe after stopRecording resolved: refreshSessions is called
StopReturns ==
    /\ stopCall.phase = "stopped"
    /\ RefreshRoom
    /\ refreshPending' = refreshPending + 1
    /\ stopCall' = NoCall
    /\ UNCHANGED <<captionVars, storeVars, startCall, refreshResp, eventQ, backendVars>>
    /\ UNCHANGED <<tableVars, aiVars, restVars>>

\* use-tauri-events.ts onCaption listener
DeliverCaption ==
    /\ eventQ # <<>>
    /\ Head(eventQ).kind = "caption"
    /\ OnCaption(Head(eventQ).payload)
    /\ eventQ' = Tail(eventQ)
    /\ Touch
    /\ UNCHANGED <<stt, arrived, storeVars, stopCall, refreshPending, refreshResp,
                   backendVars>>
    /\ UNCHANGED <<tableVars, aiVars, restVars>>

\* overlay-store recording after a recording-state event
RecordingAfter(event) == IF event.state = "stopped" THEN "paused" ELSE event.state

\* overlay-store.ts: the state held by useOverlayStore
OverlayState == [recording |-> recording, connection |-> connection]

\* setState(partial, true): the state is replaced, the fields that are not
\* given fall back to what the store was created with
SetStateReplacing(state, partial) ==
    [k \in DOMAIN state |-> IF k \in DOMAIN partial THEN partial[k]
                                                     ELSE InitialOverlayState[k]]

\* zustand setState(partial): the given fields are merged into the state,
\* the others are kept
SetState(state, partial) ==
    [k \in DOMAIN state |-> IF k \in DOMAIN partial THEN partial[k] ELSE state[k]]

\* use-tauri-events.ts onRecordingState listener
OnRecordingState(event) ==
    /\ LET after == SetState(OverlayState, [recording |-> RecordingAfter(event)])
       IN  /\ recording' = after.recording
           /\ connection' = after.connection
    /\ IF event.state = "recording"
          THEN /\ IF activeSessionId # event.sessionId
                     THEN captions' = ClearedCaptions
                     ELSE UNCHANGED captions
               /\ activeSessionId' = event.sessionId
          ELSE IF event.state = "stopped"
                  THEN /\ activeSessionId' = Null
                       /\ UNCHANGED captions
                  ELSE UNCHANGED <<activeSessionId, captions>>

\* a recording-state event reaches the main window: the listener of
\* useTauriEvents, then the listener of SessionsPage (refreshSessions)
DeliverRecordingState ==
    /\ eventQ # <<>>
    /\ Head(eventQ).kind = "recording-state"
    /\ RefreshRoom
    /\ OnRecordingState(Head(eventQ))
    /\ eventQ' = Tail(eventQ)
    /\ refreshPending' = refreshPending + 1
    /\ Touch
    /\ UNCHANGED <<stt, arrived, storeSessions, startError, stopCall,
                   refreshResp, backendVars>>
    /\ UNCHANGED <<tableVars, aiVars, restVars>>

NextSession ==
    \/ HandleStartKanpe
    \/ StartRecordingRejected
    \/ StartRecordingFails
    \/ StartRecordingSucceeds
    \/ StartResolved
    \/ StartRejected
    \/ HandleStopKanpe
    \/ GetActiveSessionIdReturns
    \/ StopHydrated
    \/ StopRecording
    \/ StopReturns
    \/ GetSessionsReturns
    \/ GetSessionsFails
    \/ RefreshReturns
    \/ \E s \in Sources : EmitInterim(s)
    \/ \E s \in Sources : EmitFinal(s)
    \/ DeliverCaption
    \/ DeliverRecordingState

SpecSession == Init /\ [][NextSession]_vars

(***************************************************************************)
(* SpecDb: the persisted tables.  The schema (CHECK constraints, foreign   *)
(* keys with ON DELETE CASCADE, AUTOINCREMENT) is part of the sources; the *)
(* commands that issue the statements belong to the backend and follow the *)
(* specification.                                                          *)
(***************************************************************************)
\* ai_logs.type CHECK(type IN (...))
AiLogTypes == {"recap", "next-speak", "followup", "questions"}

\* AiLogEntry.type of the window: the stored types and "freeform"
AiLogEntryTypes == AiLogTypes \cup {"freeform"}

\* captions: CHECK(source IN ('MIC','SYS')), CHECK(status IN ('interim','final'))
CaptionRowOk(row) == row.source \in Sources /\ row.status \in Statuses

\* ai_logs: CHECK(type IN ('recap','next-speak','followup','questions'))
AiLogRowOk(row) == row.type \in AiLogTypes

\* rows are accepted for the active session only
ForeignKeyActiveOnly(sid) == sid \in ActiveIds

\* FOREIGN KEY (session_id) REFERENCES sessions(id)
ForeignKeyOk(sid) == sid \in DOMAIN dbSessions

\* the rows of other sessions stay, and so do those of the deleted one
CascadeNothing(rows, sid) == rows

\* ON DELETE CASCADE: the rows that reference the deleted session go with it
CascadeDelete(rows, sid) == {r \in rows : r.session_id # sid}

\* DELETE FROM sessions WHERE id = sid
WithoutSession(sid) == [id \in DOMAIN dbSessions \ {sid} |-> dbSessions[id]]

dbOthers == <<captionVars, storeVars, callVars, eventQ, backendRec, emitted, aiVars,
             restVars>>

\* start_recording: INSERT INTO sessions
DbInsertSession ==
    /\ ActiveIds = {}
    /\ nextSessionId <= MaxDbSessions
    /\ dbSessions' = (nextSessionId :> NewSessionRow) @@ dbSessions
    /\ nextSessionId' = nextSessionId + 1
    /\ dbError' = NoError
    /\ UNCHANGED <<dbCaptions, dbAiLogs, captionSeq, aiLogSeq, dbOthers>>

\* stop_recording: UPDATE sessions SET is_active = 0
DbDeactivateSession(sid) ==
    /\ sid \in ActiveIds
    /\ dbSessions' = [dbSessions EXCEPT ![sid].is_active = FALSE]
    /\ dbError' = NoError
    /\ UNCHANGED <<nextSessionId, dbCaptions, dbAiLogs, captionSeq, aiLogSeq, dbOthers>>

\* INSERT INTO captions: a caption of session sid is persisted; the write
\* may come after the session was deleted
DbInsertCaption(sid, src, st) ==
    LET row == [id |-> captionSeq + 1, session_id |-> sid, source |-> src,
                status |-> st]
    IN  /\ sid < nextSessionId
        /\ captionSeq < MaxRows
        /\ IF ForeignKeyOk(sid) /\ CaptionRowOk(row)
              THEN /\ dbCaptions' = dbCaptions \cup {row}
                   /\ captionSeq' = captionSeq + 1
                   /\ dbError' = NoError
              ELSE /\ dbError' = "constraint failed"
                   /\ UNCHANGED <<dbCaptions, captionSeq>>
        /\ UNCHANGED <<dbSessions, nextSessionId, dbAiLogs, aiLogSeq, dbOthers>>

\* INSERT INTO ai_logs
DbInsertAiLog(sid, type) ==
    LET row == [id |-> aiLogSeq + 1, session_id |-> sid, type |-> type]
    IN  /\ sid < nextSessionId
        /\ aiLogSeq < MaxRows
        /\ IF ForeignKeyOk(sid) /\ AiLogRowOk(row)
              THEN /\ dbAiLogs' = dbAiLogs \cup {row}
                   /\ aiLogSeq' = aiLogSeq + 1
                   /\ dbError' = NoError
              ELSE /\ dbError' = "constraint failed"
                   /\ UNCHANGED <<dbAiLogs, aiLogSeq>>
        /\ UNCHANGED <<dbSessions, nextSessionId, dbCaptions, captionSeq, dbOthers>>

\* delete_session: the row and, by the cascade, its captions and AI logs
DeleteSession(sid) ==
    /\ sid \in DOMAIN dbSessions
    /\ dbSessions' = WithoutSession(sid)
    /\ dbCaptions' = CascadeDelete(dbCaptions, sid)
    /\ dbAiLogs' = CascadeDelete(dbAiLogs, sid)
    /\ dbError' = NoError
    /\ UNCHANGED <<nextSessionId, captionSeq, aiLogSeq, dbOthers>>

\* delete_session fails (storage error): the statement is rolled back
DeleteSessionFails(sid) ==
    /\ sid \in DOMAIN dbSessions
    /\ dbError' = "delete failed"
    /\ UNCHANGED <<dbSessions, nextSessionId, dbCaptions, dbAiLogs, captionSeq,
                   aiLogSeq, dbOthers>>

NextDb ==
    \/ DbInsertSession
    \/ \E sid \in DbSessionIds : DbDeactivateSession(sid)
    \/ \E sid \in DbSessionIds, src \in Sources, st \in Statuses :
          DbInsertCaption(sid, src, st)
    \/ \E sid \in DbSessionIds, type \in AiLogEntryTypes : DbInsertAiLog(sid, type)
    \/ \E sid \in DbSessionIds : DeleteSession(sid)
    \/ \E sid \in DbSessionIds : DeleteSessionFails(sid)

SpecDb == Init /\ [][NextDb]_vars

\* session ids referenced by rows
Referenced(rows) == {r.session_id : r \in rows}

ReferentialIntegrity ==
    /\ Referenced(dbCaptions) \subseteq DOMAIN dbSessions
    /\ Referenced(dbAiLogs) \subseteq DOMAIN dbSessions

\* a delete_session statement was attempted in this step
DeleteAttempted(sid) ==
    /\ sid \in DOMAIN dbSessions
    /\ \/ sid \notin DOMAIN dbSessions'
       \/ dbError' = "delete failed"

\* C6: every captions / ai_logs row references a session that exists, in
\* every state; a delete either removes the session with all of its caption
\* and AI-log rows or (on failure) changes no table.
C6_DeleteCascadesAtomically ==
    /\ []ReferentialIntegrity
    /\ [][\A sid \in DbSessionIds : DeleteAttempted(sid) =>
            \/ /\ sid \notin DOMAIN dbSessions'
               /\ sid \notin Referenced(dbCaptions') \cup Referenced(dbAiLogs')
               /\ \A r \in dbCaptions : r.session_id # sid => r \in dbCaptions'
               /\ \A r \in dbAiLogs : r.session_id # sid => r \in dbAiLogs'
            \/ <<dbSessions, dbCaptions, dbAiLogs>>' = <<dbSessions, dbCaptions, dbAiLogs>>]_vars

\* a session that had a row in captions or ai_logs has been deleted (an
\* AUTOINCREMENT counter is ahead of the rows left) while a row of another
\* session is still stored
C6_Witness ==
    /\ \E sid \in DbSessionIds : sid < nextSessionId /\ sid \notin DOMAIN dbSessions
    /\ \/ captionSeq > Cardinality(dbCaptions)
       \/ aiLogSeq > Cardinality(dbAiLogs)
    /\ dbCaptions \cup dbAiLogs # {}

(***************************************************************************)
(* SpecAi: the assist pane of the expanded overlay.  The window's handlers *)
(* are translated from overlay-minibar.tsx (component OverlayExpanded);    *)
(* send_ai_query belongs to the backend and follows the specification,     *)
(* writing to table ai_logs under the schema's constraints.                *)
(***************************************************************************)
RightPaneActions == {"recap", "assist", "question", "action"}

\* ACTION_CONFIG[action].label
ActionLabel(action) ==
    CASE action = "recap" -> "Recap"
      [] action = "assist" -> "Assist"
      [] action = "question" -> "Question"
      [] action = "action" -> "Action"

\* the AiLogEntry type send_ai_query records for a request
AiLogTypeOf(action) ==
    CASE action = "recap" -> "recap"
      [] action = "assist" -> "next-speak"
      [] action = "question" -> "questions"
      [] action = "action" -> "followup"
      [] OTHER -> "freeform"

\* String.prototype.trim on the values the input takes here
Trim(v) == IF v = " " THEN "" ELSE v

InputValues == {"", " ", "q"}

\* LLMMessage; detail is the interpolated part of the content
UserMessage(content) == [role |-> "user", content |-> content, detail |-> ""]

AssistantMessage(content) == [role |-> "assistant", content |-> content, detail |-> ""]

NoSessionMessage == AssistantMessage("no session started")

\* `LLM call failed: ${message}`
FailureMessage(err) ==
    [role |-> "assistant", content |-> "LLM call failed", detail |-> err]

NumUser == Len(SelectSeq(messages, LAMBDA m : m.role = "user"))

\* the slot a new handler invocation takes
FreeSlot(k) ==
    /\ aiCall[k].phase = "idle"
    /\ \A j \in 1..(k - 1) : aiCall[j].phase # "idle"

\* every session id counts as resolved, null included
HasSessionUnchecked(sessionId) == TRUE

\* overlay-minibar.tsx 266, 311: if (!sessionId) { ... return }
HasSession(sessionId) == sessionId # Null

\* resolveSessionId 246-254: the hydrated id when the call brought one
HydratedId(call) ==
    IF call.outcome = "found" /\ call.sid # Null THEN call.sid ELSE Null

\* the handler sets the flag and sends nothing
SendingDropped(call, action, sessionId) == call

\* setIsGenerating(true) and the sendAiQuery call
Sending(call, action, sessionId) ==
    [call EXCEPT !.phase = "sent", !.action = action, !.sid = sessionId,
                 !.outcome = "none", !.llm = "none", !.sent = @ + 1]

\* after a failure the request is sent again
CallRetriedAfterError(call) ==
    IF call.outcome = "response" THEN AiIdle
    ELSE [call EXCEPT !.phase = "sent", !.outcome = "none", !.llm = "none",
                      !.sent = @ + 1]

\* overlay-minibar.tsx 278-297: after try / catch / finally the handler ends
CallAfterAnswer(call) == AiIdle

\* the handler from `await resolveSessionId()` on, when activeSessionId is
\* set: resolveSessionId returns it at once and the request is sent
BeginRequest(k, action) ==
    IF activeSessionId # Null
       THEN /\ isGenerating' = TRUE
            /\ aiCall' = [aiCall EXCEPT ![k] = Sending(@, action, activeSessionId)]
       ELSE /\ aiCall' = [aiCall EXCEPT ![k] = [@ EXCEPT !.phase = "resolving",
                                                         !.action = action]]
            /\ UNCHANGED isGenerating

aiOthers == <<captionVars, storeSessions, recording, connection, startError,
              callVars, eventQ, backendRec, emitted, nextSessionId,
              dbCaptions, captionSeq, dbError, restVars>>

\* start_recording, called from the main window, succeeds; sessions bounds
\* the sessions of the run
SessionStarted(sessions) ==
    /\ ActiveIds = {}
    /\ nextSessionId <= sessions
    /\ Len(eventQ) < MaxQueue
    /\ BeginSession
    /\ UNCHANGED <<captionVars, storeVars, callVars, emitted, tableVars, aiVars,
                   restVars>>

SessionStarts == SessionStarted(MaxSessions)

\* stop_recording, called for the active session, succeeds
SessionStops ==
    /\ ActiveIds # {}
    /\ Len(eventQ) < MaxQueue
    /\ EndSession(BackendActiveSessionId)
    /\ UNCHANGED <<captionVars, storeVars, callVars, nextSessionId, emitted,
                   tableVars, aiVars, restVars>>

\* a recording-state event reaches the overlay window (useTauriEvents)
OverlayRecordingState ==
    /\ eventQ # <<>>
    /\ Head(eventQ).kind = "recording-state"
    /\ OnRecordingState(Head(eventQ))
    /\ eventQ' = Tail(eventQ)
    /\ UNCHANGED <<stt, arrived, storeSessions, startError, callVars,
                   backendVars, tableVars, aiVars, restVars>>

\* the input's onChange
TypeQuery(v) ==
    /\ ~isGenerating
    /\ v # inputValue
    /\ inputValue' = v
    /\ UNCHANGED <<messages, isGenerating, aiCall, activeSessionId, dbSessions,
                   dbAiLogs, aiLogSeq, aiOthers>>

\* overlay-minibar.tsx handleActionClick, up to its first pending await;
\* clicks bounds the user messages of the run
ActionClicked(k, action, clicks) ==
    /\ ~isGenerating
    /\ FreeSlot(k)
    /\ NumUser < clicks
    /\ messages' = Append(messages, UserMessage(ActionLabel(action)))
    /\ BeginRequest(k, action)
    /\ UNCHANGED <<inputValue, activeSessionId, dbSessions, dbAiLogs, aiLogSeq,
                   aiOthers>>

HandleActionClick(k, action) == ActionClicked(k, action, MaxClicks)

\* overlay-minibar.tsx handleSendFreeform, up to its first pending await
FreeformSent(k, clicks) ==
    /\ Trim(inputValue) # ""
    /\ ~isGenerating
    /\ FreeSlot(k)
    /\ NumUser < clicks
    /\ messages' = Append(messages, UserMessage(inputValue))
    /\ inputValue' = ""
    /\ BeginRequest(k, "none")
    /\ UNCHANGED <<activeSessionId, dbSessions, dbAiLogs, aiLogSeq, aiOthers>>

HandleSendFreeform(k) == FreeformSent(k, MaxClicks)

\* get_active_session_id answers resolveSessionId
AiActiveSessionIdReturns(k) ==
    /\ aiCall[k].phase = "resolving"
    /\ aiCall' = [aiCall EXCEPT ![k] =
                    [@ EXCEPT !.phase = "hydrated", !.sid = BackendActiveSessionId,
                              !.outcome = IF BackendActiveSessionId = Null
                                             THEN "null" ELSE "found"]]
    /\ UNCHANGED <<messages, isGenerating, inputValue, activeSessionId,
                   dbSessions, dbAiLogs, aiLogSeq, aiOthers>>

\* get_active_session_id fails: resolveSessionId catches and returns null
AiActiveSessionIdFails(k) ==
    /\ aiCall[k].phase = "resolving"
    /\ aiCall' = [aiCall EXCEPT ![k] =
                    [@ EXCEPT !.phase = "hydrated", !.sid = Null,
                              !.outcome = "failed"]]
    /\ UNCHANGED <<messages, isGenerating, inputValue, activeSessionId,
                   dbSessions, dbAiLogs, aiLogSeq, aiOthers>>

\* the handler after `await resolveSessionId()` when the id was fetched
ResolveSessionIdReturns(k) ==
    /\ aiCall[k].phase = "hydrated"
    /\ LET sessionId == HydratedId(aiCall[k])
       IN  /\ activeSessionId' = IF sessionId # Null THEN sessionId
                                                     ELSE activeSessionId
           /\ IF HasSession(sessionId)
                 THEN /\ isGenerating' = TRUE
                      /\ aiCall' = [aiCall EXCEPT ![k] =
                                      Sending(@, @.action, sessionId)]
                      /\ UNCHANGED messages
                 ELSE /\ messages' = Append(messages, NoSessionMessage)
                      /\ aiCall' = [aiCall EXCEPT ![k] = AiIdle]
                      /\ UNCHANGED isGenerating
    /\ UNCHANGED <<inputValue, dbSessions, dbAiLogs, aiLogSeq, aiOthers>>

\* send_ai_query: the LLM provider fails
AiProviderFails(k) ==
    /\ aiCall[k].phase = "sent"
    /\ aiCall' = [aiCall EXCEPT ![k] =
                    [@ EXCEPT !.phase = "answered", !.llm = "failed",
                              !.outcome = "ProviderError"]]
    /\ UNCHANGED <<messages, isGenerating, inputValue, activeSessionId,
                   dbSessions, dbAiLogs, aiLogSeq, aiOthers>>

\* send_ai_query: the LLM provider answers; the exchange is inserted into
\* ai_logs and the session's ai_assists is incremented
AiProviderAnswers(k) ==
    LET call == aiCall[k]
        row == [id |-> aiLogSeq + 1, session_id |-> call.sid,
                type |-> AiLogTypeOf(call.action)]
    IN  /\ call.phase = "sent"
        /\ aiLogSeq < MaxRows
        /\ IF ForeignKeyOk(call.sid) /\ AiLogRowOk(row)
              THEN /\ dbAiLogs' = dbAiLogs \cup {row}
                   /\ aiLogSeq' = aiLogSeq + 1
                   /\ dbSessions' = [dbSessions EXCEPT ![call.sid].ai_assists = @ + 1]
                   /\ aiCall' = [aiCall EXCEPT ![k] =
                                   [@ EXCEPT !.phase = "answered", !.llm = "ok",
                                             !.outcome = "response"]]
              ELSE /\ aiCall' = [aiCall EXCEPT ![k] =
                                   [@ EXCEPT !.phase = "answered", !.llm = "ok",
                                             !.outcome = "PersistenceError"]]
                   /\ UNCHANGED <<dbAiLogs, aiLogSeq, dbSessions>>
        /\ UNCHANGED <<messages, isGenerating, inputValue, activeSessionId, aiOthers>>

\* the handler after `await sendAiQuery(...)`: try / catch / finally
AiAnswerArrives(k) ==
    /\ aiCall[k].phase = "answered"
    /\ messages' = Append(messages,
                     IF aiCall[k].outcome = "response"
                        THEN AssistantMessage("response")
                        ELSE FailureMessage(aiCall[k].outcome))
    /\ isGenerating' = FALSE
    /\ aiCall' = [aiCall EXCEPT ![k] = CallAfterAnswer(@)]
    /\ UNCHANGED <<inputValue, activeSessionId, dbSessions, dbAiLogs, aiLogSeq,
                   aiOthers>>

NextAi ==
    \/ SessionStarts
    \/ SessionStops
    \/ OverlayRecordingState
    \/ \E v \in InputValues : TypeQuery(v)
    \/ \E k \in AiSlots, action \in RightPaneActions : HandleActionClick(k, action)
    \/ \E k \in AiSlots : HandleSendFreeform(k)
    \/ \E k \in AiSlots : AiActiveSessionIdReturns(k)
    \/ \E k \in AiSlots : AiActiveSessionIdFails(k)
    \/ \E k \in AiSlots : ResolveSessionIdReturns(k)
    \/ \E k \in AiSlots : AiProviderFails(k)
    \/ \E k \in AiSlots : AiProviderAnswers(k)
    \/ \E k \in AiSlots : AiAnswerArrives(k)

SpecAi == Init /\ [][NextAi]_vars

\* the assist pane with room for handlers that overlap
RaceActionClick(k, action) == ActionClicked(k, action, MaxRaceClicks)

RaceSendFreeform(k) == FreeformSent(k, MaxRaceClicks)

NextAiRace ==
    \/ SessionStarts
    \/ SessionStops
    \/ OverlayRecordingState
    \/ \E v \in InputValues : TypeQuery(v)
    \/ \E k \in RaceSlots, action \in RightPaneActions : RaceActionClick(k, action)
    \/ \E k \in RaceSlots : RaceSendFreeform(k)
    \/ \E k \in RaceSlots : AiActiveSessionIdReturns(k)
    \/ \E k \in RaceSlots : AiActiveSessionIdFails(k)
    \/ \E k \in RaceSlots : ResolveSessionIdReturns(k)
    \/ \E k \in RaceSlots : AiProviderFails(k)
    \/ \E k \in RaceSlots : AiProviderAnswers(k)
    \/ \E k \in RaceSlots : AiAnswerArrives(k)

SpecAiRace == Init /\ [][NextAiRace]_vars

(***************************************************************************)
(* SpecSwitch: the overlay window while one session follows another.  The  *)
(* caption payload carries no session id; the text of a caption stands for *)
(* what was said, and here it names the session that said it.              *)
(***************************************************************************)
\* the caption the STT pipeline of session sid sends
SessionCaption(s, st, sid) ==
    CaptionEvent(s, st, <<sid, IF st = "interim" THEN 1 ELSE 0>>)

\* the session a caption was spoken in
SessionOf(caption) == caption.text[1]

\* a second session may start after the first has stopped
SwitchSessionStarts == SessionStarted(MaxSwitchSessions)

\* the STT pipeline of the recording session sends a transcript
EmitSessionCaption(s, st) ==
    /\ backendRec = "recording"
    /\ ActiveIds # {}
    /\ emitted < MaxSwitchCaptions
    /\ Len(eventQ) < MaxQueue
    /\ eventQ' = Append(eventQ,
                        CaptionMessage(SessionCaption(s, st, BackendActiveSessionId)))
    /\ emitted' = emitted + 1
    /\ UNCHANGED <<captionVars, storeVars, callVars, dbSessions, nextSessionId,
                   backendRec, tableVars, aiVars, restVars>>

\* use-tauri-events.ts onCaption listener of the overlay window
OverlayCaption ==
    /\ eventQ # <<>>
    /\ Head(eventQ).kind = "caption"
    /\ OnCaption(Head(eventQ).payload)
    /\ eventQ' = Tail(eventQ)
    /\ UNCHANGED <<stt, arrived, storeVars, callVars, backendVars, tableVars,
                   aiVars, restVars>>

NextSwitch ==
    \/ SwitchSessionStarts
    \/ SessionStops
    \/ \E s \in Sources, st \in Statuses : EmitSessionCaption(s, st)
    \/ OverlayCaption
    \/ OverlayRecordingState
    \/ \E k \in AiSlots, action \in RightPaneActions : HandleActionClick(k, action)
    \/ \E k \in AiSlots : AiActiveSessionIdReturns(k)
    \/ \E k \in AiSlots : AiActiveSessionIdFails(k)
    \/ \E k \in AiSlots : ResolveSessionIdReturns(k)
    \/ \E k \in AiSlots : AiProviderFails(k)
    \/ \E k \in AiSlots : AiProviderAnswers(k)
    \/ \E k \in AiSlots : AiAnswerArrives(k)

SpecSwitch == Init /\ [][NextSwitch]_vars

\* get_active_session_id settles
SessionIdSettles ==
    \E k \in AiSlots : AiActiveSessionIdReturns(k) \/ AiActiveSessionIdFails(k)

\* send_ai_query settles
QuerySettles == \E k \in AiSlots : AiProviderAnswers(k) \/ AiProviderFails(k)

\* a handler resumes after the call it awaited has settled
HandlerResumes == \E k \in AiSlots : ResolveSessionIdReturns(k) \/ AiAnswerArrives(k)

\* every invoke() settles and every continuation is run by the event loop
SpecAiFair ==
    SpecAi /\ WF_vars(SessionIdSettles) /\ WF_vars(QuerySettles)
           /\ WF_vars(HandlerResumes)

(***************************************************************************)
(* SpecOverlay: the overlay window (OverlayApp with useTauriEvents) and    *)
(* the backend it talks to.  The window's handlers are translated from     *)
(* OverlayApp.tsx and use-tauri-events.ts; the session state machine and   *)
(* the STT client belong to the backend and follow the specification.      *)
(***************************************************************************)
ConnectionStatuses == {"connected", "reconnecting", "disconnected"}

\* the connection event as the backend emits it
ConnectionEvent(st) == [kind |-> "connection", status |-> st]

\* a command can emit n more events
QueueRoom(n) == Len(eventQ) + n <= MaxQueue

\* start_recording from the main window: the session is created and the
\* STT client starts to connect
SessionBegins ==
    /\ ActiveIds = {}
    /\ sttConn = "disconnected"
    /\ nextSessionId <= MaxSessions
    /\ QueueRoom(1)
    /\ BeginSession
    /\ sttConn' = "connecting"
    /\ retries' = 0
    /\ UNCHANGED <<captionVars, storeVars, callVars, emitted, tableVars, aiVars, lateVars,
                   overlayVars, replay, frames>>

\* stop(): the session is marked inactive and the stop is announced; the
\* STT resources are released next (SttReleased)
StopSession(sid) ==
    /\ EndSession(sid)
    /\ UNCHANGED sttVars

\* stop_recording from the main window
SessionEnds ==
    /\ ActiveIds # {}
    /\ QueueRoom(1)
    /\ StopSession(BackendActiveSessionId)
    /\ UNCHANGED <<captionVars, storeVars, callVars, nextSessionId, emitted,
                   tableVars, aiVars, lateVars, overlayVars>>

sessionOthers == <<captionVars, storeVars, callVars, dbSessions, nextSessionId,
                   backendRec, emitted, tableVars, aiVars, lateVars, overlayVars>>

\* Connecting -> Streaming: the provider connection is established
SttConnected ==
    /\ ActiveIds # {}
    /\ sttConn = "connecting"
    /\ QueueRoom(1)
    /\ sttConn' = "streaming"
    /\ eventQ' = Append(eventQ, ConnectionEvent("connected"))
    /\ UNCHANGED <<retries, replay, frames, sessionOthers>>

\* Streaming -> Reconnecting: the socket closes unexpectedly
SocketCloses ==
    /\ ActiveIds # {}
    /\ sttConn = "streaming"
    /\ QueueRoom(1)
    /\ sttConn' = "reconnecting"
    /\ retries' = 0
    /\ eventQ' = Append(eventQ, ConnectionEvent("reconnecting"))
    /\ UNCHANGED <<replay, frames, sessionOthers>>

\* a reconnection attempt fails; the backoff goes on
RetryFails ==
    /\ ActiveIds # {}
    /\ sttConn = "reconnecting"
    /\ retries < MaxRetries
    /\ retries' = retries + 1
    /\ UNCHANGED <<sttConn, eventQ, replay, frames, sessionOthers>>

\* Reconnecting -> Streaming: a retry succeeds, the buffered frames are
\* replayed
RetrySucceeds ==
    /\ ActiveIds # {}
    /\ sttConn = "reconnecting"
    /\ QueueRoom(1)
    /\ sttConn' = "streaming"
    /\ retries' = 0
    /\ frames' = [frames EXCEPT !.forwarded = @ + replay, !.replayed = @ + replay]
    /\ replay' = 0
    /\ eventQ' = Append(eventQ, ConnectionEvent("connected"))
    /\ UNCHANGED sessionOthers

\* Reconnecting -> Disconnected: the retries are exhausted
RetriesExhausted ==
    /\ ActiveIds # {}
    /\ sttConn = "reconnecting"
    /\ retries = MaxRetries
    /\ QueueRoom(1)
    /\ sttConn' = "disconnected"
    /\ retries' = 0
    /\ frames' = [frames EXCEPT !.lost = @ + replay]
    /\ replay' = 0
    /\ eventQ' = Append(eventQ, ConnectionEvent("disconnected"))
    /\ UNCHANGED sessionOthers

\* the STT connection of a stopped session is released
SttReleased ==
    /\ ActiveIds = {}
    /\ sttConn # "disconnected"
    /\ QueueRoom(1)
    /\ sttConn' = "disconnected"
    /\ retries' = 0
    /\ frames' = [frames EXCEPT !.lost = @ + replay]
    /\ replay' = 0
    /\ eventQ' = Append(eventQ, ConnectionEvent("disconnected"))
    /\ UNCHANGED sessionOthers

\* what the window leaves alone while the backend serves one of its calls
windowState == <<captionVars, storeVars, callVars, tableVars, aiVars, lateVars, processed>>

\* pause_recording / resume_recording: RecordingState is toggled and
\* announced; the STT connection is not touched.  A command that does not
\* apply (the session is not active, or is already in that state) changes
\* nothing.  toggleRecording does nothing after its await.
ToggleServed(from, to) ==
    /\ IF toggleCall.id \in ActiveIds /\ backendRec = from
          THEN /\ QueueRoom(1)
               /\ backendRec' = to
               /\ eventQ' = Append(eventQ, RecordingStateEvent(to, toggleCall.id))
          ELSE UNCHANGED <<backendRec, eventQ>>
    /\ toggleCall' = [toggleCall EXCEPT !.phase = "idle", !.id = Null]
    /\ UNCHANGED <<windowState, dbSessions, nextSessionId, emitted, overlayStop,
                   hydrateCall, sttVars>>

PauseRecording == toggleCall.phase = "pausing" /\ ToggleServed("recording", "paused")

ResumeRecording == toggleCall.phase = "resuming" /\ ToggleServed("paused", "recording")

\* the toggle always pauses
ToggleCommandPauseOnly(rec) == "pausing"

\* OverlayApp.tsx 28-32: the command toggleRecording issues
ToggleCommand(rec) == IF rec = "recording" THEN "pausing" ELSE "resuming"

\* OverlayApp.tsx toggleRecording, up to its await
ToggleRecording ==
    /\ toggleCall.phase = "idle"
    /\ toggleCall.n < MaxToggles
    /\ activeSessionId # Null
    /\ toggleCall' = [phase |-> ToggleCommand(recording), id |-> activeSessionId,
                      n |-> toggleCall.n + 1]
    /\ UNCHANGED <<windowState, eventQ, backendVars, overlayStop, hydrateCall, sttVars>>

\* 'stopped' events of session sid emitted so far
StopsAnnounced(sid) ==
    Len(SelectSeq(processed \o eventQ,
                  LAMBDA e : e.kind = "recording-state" /\ e.state = "stopped"
                             /\ e.sessionId = sid))

\* OverlayApp.tsx handleStopSession: activeSessionId ?? (await getActiveSessionId())
HandleStopSession ==
    /\ overlayStop.phase = "idle"
    /\ overlayStop' = IF activeSessionId # Null
                         THEN [phase |-> "stopping", id |-> activeSessionId,
                               outcome |-> "none"]
                         ELSE [phase |-> "hydrating", id |-> Null, outcome |-> "none"]
    /\ UNCHANGED <<windowState, eventQ, backendVars, toggleCall, hydrateCall, sttVars>>

\* get_active_session_id answers handleStopSession
StopSessionIdReturns ==
    /\ overlayStop.phase = "hydrating"
    /\ overlayStop' = [overlayStop EXCEPT !.phase = "hydrated",
                                          !.id = BackendActiveSessionId]
    /\ UNCHANGED <<windowState, eventQ, backendVars, toggleCall, hydrateCall, sttVars>>

\* get_active_session_id fails: the catch block logs the error
StopSessionIdFails ==
    /\ overlayStop.phase = "hydrating"
    /\ overlayStop' = [StopIdle EXCEPT !.outcome = "error"]
    /\ UNCHANGED <<windowState, eventQ, backendVars, toggleCall, hydrateCall, sttVars>>

\* stop_recording is called whatever the id is
StopIdAssumed(sessionId) == TRUE

\* OverlayApp.tsx 41: if (!sessionId)
StopIdKnown(sessionId) == sessionId # Null

\* handleStopSession 41-45: without a session id the window is hidden
StopSessionHydrated ==
    /\ overlayStop.phase = "hydrated"
    /\ overlayStop' = IF StopIdKnown(overlayStop.id)
                         THEN [overlayStop EXCEPT !.phase = "stopping"]
                         ELSE [StopIdle EXCEPT !.outcome = "hidden"]
    /\ UNCHANGED <<windowState, eventQ, backendVars, toggleCall, hydrateCall, sttVars>>

\* stop_recording serves handleStopSession.  Stopping a session that is
\* already stopped is a no-op that reports success; whether the stop is
\* announced again is left open.
StopSessionServed ==
    /\ overlayStop.phase = "stopping"
    /\ IF overlayStop.id \in ActiveIds
          THEN /\ QueueRoom(1)
               /\ StopSession(overlayStop.id)
          ELSE /\ \/ UNCHANGED eventQ
                  \/ /\ StopsAnnounced(overlayStop.id) <= MaxRestops
                     /\ QueueRoom(1)
                     /\ eventQ' = Append(eventQ,
                                    RecordingStateEvent("stopped", overlayStop.id))
               /\ UNCHANGED <<dbSessions, backendRec, sttVars>>
    /\ overlayStop' = [overlayStop EXCEPT !.phase = "stopped"]
    /\ UNCHANGED <<windowState, nextSessionId, emitted, toggleCall, hydrateCall>>

\* handleStopSession 46-47: after stopRecording resolved
StopSessionReturns ==
    /\ overlayStop.phase = "stopped"
    /\ activeSessionId' = Null
    /\ overlayStop' = [StopIdle EXCEPT !.outcome = "stopped"]
    /\ UNCHANGED <<captionVars, storeSessions, recording, connection, startError,
                   callVars, tableVars, aiVars, lateVars, processed, eventQ, backendVars,
                   toggleCall, hydrateCall, sttVars>>

\* OverlayApp.tsx hydrateActiveSession, run once when the window mounts
HydrateActiveSession ==
    /\ hydrateCall.phase = "idle"
    /\ hydrateCall' = [phase |-> "pending", id |-> Null]
    /\ UNCHANGED <<windowState, eventQ, backendVars, toggleCall, overlayStop, sttVars>>

\* get_active_session_id answers hydrateActiveSession
HydrateAnswered ==
    /\ hydrateCall.phase = "pending"
    /\ hydrateCall' = [phase |-> "answered", id |-> BackendActiveSessionId]
    /\ UNCHANGED <<windowState, eventQ, backendVars, toggleCall, overlayStop, sttVars>>

\* OverlayApp.tsx 78-80: if (sessionId) setState({ activeSessionId: sessionId })
HydratedSessionId(call, current) == IF call.id # Null THEN call.id ELSE current

\* hydrateActiveSession after its await
HydrateReturns ==
    /\ hydrateCall.phase = "answered"
    /\ activeSessionId' = HydratedSessionId(hydrateCall, activeSessionId)
    /\ hydrateCall' = [phase |-> "done", id |-> Null]
    /\ UNCHANGED <<captionVars, storeSessions, recording, connection, startError,
                   callVars, tableVars, aiVars, lateVars, processed, eventQ, backendVars,
                   toggleCall, overlayStop, sttVars>>

\* a recording-state event reaches the overlay window
ProcessRecordingState ==
    /\ eventQ # <<>>
    /\ Head(eventQ).kind = "recording-state"
    /\ OnRecordingState(Head(eventQ))
    /\ eventQ' = Tail(eventQ)
    /\ processed' = Append(processed, Head(eventQ))
    /\ UNCHANGED <<stt, arrived, storeSessions, startError, callVars, backendVars,
                   tableVars, aiVars, lateVars, toggleCall, overlayStop, hydrateCall, sttVars>>

\* everything but connected is shown as disconnected
ConnectionShownOffline(event) ==
    IF event.status = "connected" THEN "connected" ELSE "disconnected"

\* use-tauri-events.ts 47: the status the store takes from a connection event
ConnectionAfter(event) == event.status

\* use-tauri-events.ts onConnection listener
OnConnection(event) ==
    LET after == SetState(OverlayState, [connection |-> ConnectionAfter(event)])
    IN  /\ recording' = after.recording
        /\ connection' = after.connection

\* a connection event reaches the overlay window
ProcessConnection ==
    /\ eventQ # <<>>
    /\ Head(eventQ).kind = "connection"
    /\ OnConnection(Head(eventQ))
    /\ eventQ' = Tail(eventQ)
    /\ UNCHANGED <<captionVars, activeSessionId, storeSessions, startError, callVars,
                   backendVars, tableVars, aiVars, lateVars, overlayVars, sttVars>>

NextOverlay ==
    \/ SessionBegins
    \/ SessionEnds
    \/ SttConnected
    \/ SocketCloses
    \/ RetryFails
    \/ RetrySucceeds
    \/ RetriesExhausted
    \/ SttReleased
    \/ ToggleRecording
    \/ PauseRecording
    \/ ResumeRecording
    \/ HandleStopSession
    \/ StopSessionIdReturns
    \/ StopSessionIdFails
    \/ StopSessionHydrated
    \/ StopSessionServed
    \/ StopSessionReturns
    \/ HydrateActiveSession
    \/ HydrateAnswered
    \/ HydrateReturns
    \/ ProcessRecordingState
    \/ ProcessConnection

SpecOverlay == Init /\ [][NextOverlay]_vars

(***************************************************************************)
(* SpecStt: the STT client of the backend with its replay buffer, and the  *)
(* connection status the window shows.  The STT client follows the         *)
(* specification; the window is the onConnection listener.                 *)
(***************************************************************************)
\* a captured frame is forwarded while Streaming; while Reconnecting it is
\* buffered up to the bound and otherwise dropped with a counted loss
CaptureFrame ==
    /\ backendRec = "recording"
    /\ sttConn \in {"streaming", "reconnecting"}
    /\ frames.captured < MaxFrames
    /\ IF sttConn = "streaming"
          THEN /\ frames' = [frames EXCEPT !.captured = @ + 1, !.forwarded = @ + 1]
               /\ UNCHANGED replay
          ELSE IF replay < ReplayBound
                  THEN /\ frames' = [frames EXCEPT !.captured = @ + 1]
                       /\ replay' = replay + 1
                  ELSE /\ frames' = [frames EXCEPT !.captured = @ + 1, !.lost = @ + 1]
                       /\ UNCHANGED replay
    /\ UNCHANGED <<sttConn, retries, eventQ, sessionOthers>>

NextStt ==
    \/ SessionBegins
    \/ SessionEnds
    \/ SttConnected
    \/ SocketCloses
    \/ RetryFails
    \/ RetrySucceeds
    \/ RetriesExhausted
    \/ SttReleased
    \/ CaptureFrame
    \/ ProcessRecordingState
    \/ ProcessConnection

SpecStt == Init /\ [][NextStt]_vars

(***************************************************************************)
(* SpecListeners: the effects that subscribe to backend events.  Each      *)
(* listen() call returns a promise of the unlisten function; the effect's  *)
(* cleanup chains the call of that function onto the promise.              *)
(***************************************************************************)
Components == {"useTauriEvents", "SessionsPage", "AppRoutes"}

\* the events each effect subscribes to
ListenersOf(c) ==
    CASE c = "useTauriEvents" ->
           {"caption", "ai-response", "recording-state", "connection"}
      [] c = "SessionsPage" -> {"recording-state", "session-completed"}
      [] c = "AppRoutes" -> {"session-completed"}

\* a run of an effect: every listen() promise is pending.  torn says the
\* cleanup has run, awaiting that some promise was pending when it ran.
EffectRun(c) ==
    [component |-> c, torn |-> FALSE, awaiting |-> FALSE,
     regs |-> [k \in ListenersOf(c) |-> "pending"]]

Mounted(c) ==
    \E i \in DOMAIN effects : effects[i].component = c /\ ~effects[i].torn

\* the component mounts (or its dependencies change) and the effect runs
MountEffect(c) ==
    /\ Len(effects) < MaxMounts
    /\ ~Mounted(c)
    /\ effects' = Append(effects, EffectRun(c))

\* the event system registers the listener and the promise resolves
ListenResolves(i, k) ==
    /\ effects[i].regs[k] = "pending"
    /\ effects' = [effects EXCEPT ![i].regs[k] = "registered"]

\* the cleanup: p.then((unlisten) => unlisten()) for every promise
CleanupEffect(i) ==
    /\ ~effects[i].torn
    /\ effects' = [effects EXCEPT ![i].torn = TRUE,
                                  ![i].awaiting =
                                      \E k \in DOMAIN effects[i].regs :
                                          effects[i].regs[k] = "pending"]

\* the chained call is made only when every promise had resolved at cleanup
ThenRunsIfResolved(effect, k) ==
    effect.torn /\ ~effect.awaiting /\ effect.regs[k] = "registered"

\* the callback chained by the cleanup runs once the promise has resolved
ThenRuns(effect, k) == effect.torn /\ effect.regs[k] = "registered"

\* unlisten() is called
Unlisten(i, k) ==
    /\ ThenRuns(effects[i], k)
    /\ effects' = [effects EXCEPT ![i].regs[k] = "released"]

listenerOthers == <<captionVars, storeVars, callVars, eventQ, backendVars,
                    tableVars, aiVars, overlayVars, sttVars, wizardVars,
                    captureVars,
     deliveryVars,
     listVars,
     detailVars,
     refreshVars>>

Mounts == (\E c \in Components : MountEffect(c)) /\ UNCHANGED listenerOthers

Resolves ==
    /\ \E i \in DOMAIN effects : \E k \in DOMAIN effects[i].regs :
          ListenResolves(i, k)
    /\ UNCHANGED listenerOthers

Cleanups ==
    (\E i \in DOMAIN effects : CleanupEffect(i)) /\ UNCHANGED listenerOthers

Unlistens ==
    /\ \E i \in DOMAIN effects : \E k \in DOMAIN effects[i].regs : Unlisten(i, k)
    /\ UNCHANGED listenerOthers

NextListeners ==
    \/ Mounts
    \/ Resolves
    \/ Cleanups
    \/ Unlistens

SpecListeners == Init /\ [][NextListeners]_vars

\* a listen() call is answered, and a callback chained onto a resolved
\* promise is run by the event loop
SpecListenersFair ==
    SpecListeners /\ WF_vars(Resolves) /\ WF_vars(Unlistens)

(***************************************************************************)
(* SpecWizard: the permission wizard (ScreenOnboarding).  What             *)
(* check_permissions reports is an input: any status of the three          *)
(* permissions.                                                            *)
(***************************************************************************)
PermissionStates == {"granted", "denied", "unknown"}

\* PermissionStatus as check_permissions returns it, indexed by step
PermissionStatuses == [Steps -> PermissionStates]

\* permissions.every((p) => p.state === "granted")
AllGranted == \A i \in Steps : permissions[i] = "granted"

\* permissions[currentStep]
CurrentPerm == permissions[currentStep]

\* the button is always enabled
CtaNeverDisabled == FALSE

\* disabled={currentPerm?.state !== "granted"}
CtaDisabled == CurrentPerm # "granted"

wizardOthers == <<captionVars, storeVars, callVars, eventQ, backendVars,
                  tableVars, aiVars, overlayVars, sttVars, listenerVars,
                  captureVars,
     deliveryVars,
     listVars,
     detailVars,
     refreshVars>>

\* refreshPermissions on mount or when the window regains focus, answered
FocusRefreshReturns(status) ==
    /\ ~onboardingComplete
    /\ permissions' = status
    /\ UNCHANGED <<currentStep, loading, permCall, onboardingComplete, wizardOthers>>

\* handleRequest up to `await requestPermission(...)`
HandleRequest ==
    /\ ~onboardingComplete
    /\ CurrentPerm # "granted"
    /\ ~loading
    /\ loading' = TRUE
    /\ permCall' = "requesting"
    /\ UNCHANGED <<currentStep, permissions, onboardingComplete, wizardOthers>>

\* request_permission returns and refreshPermissions is called
RequestReturns ==
    /\ ~onboardingComplete
    /\ permCall = "requesting"
    /\ permCall' = "checking"
    /\ UNCHANGED <<currentStep, permissions, loading, onboardingComplete, wizardOthers>>

\* request_permission rejects: catch, then finally
RequestFails ==
    /\ ~onboardingComplete
    /\ permCall = "requesting"
    /\ permCall' = "idle"
    /\ loading' = FALSE
    /\ UNCHANGED <<currentStep, permissions, onboardingComplete, wizardOthers>>

\* handleRecheck up to `await refreshPermissions()`
HandleRecheck ==
    /\ ~onboardingComplete
    /\ ~loading
    /\ loading' = TRUE
    /\ permCall' = "checking"
    /\ UNCHANGED <<currentStep, permissions, onboardingComplete, wizardOthers>>

\* check_permissions answers the refreshPermissions of a handler
CheckReturns(status) ==
    /\ ~onboardingComplete
    /\ permCall = "checking"
    /\ permissions' = status
    /\ permCall' = "finishing"
    /\ UNCHANGED <<currentStep, loading, onboardingComplete, wizardOthers>>

\* check_permissions rejects: refreshPermissions catches and logs
CheckFails ==
    /\ ~onboardingComplete
    /\ permCall = "checking"
    /\ permCall' = "finishing"
    /\ UNCHANGED <<currentStep, permissions, loading, onboardingComplete, wizardOthers>>

\* finally { setLoading(false) }
FinishLoading ==
    /\ ~onboardingComplete
    /\ permCall = "finishing"
    /\ permCall' = "idle"
    /\ loading' = FALSE
    /\ UNCHANGED <<currentStep, permissions, onboardingComplete, wizardOthers>>

\* the onClick of the Next / Get Started button
PressCta ==
    /\ ~onboardingComplete
    /\ ~CtaDisabled
    /\ IF AllGranted
          THEN /\ onboardingComplete' = TRUE
               /\ UNCHANGED currentStep
          ELSE /\ currentStep' = IF currentStep < Cardinality(Steps) - 1
                                    THEN currentStep + 1 ELSE currentStep
               /\ UNCHANGED onboardingComplete
    /\ UNCHANGED <<permissions, loading, permCall, wizardOthers>>

NextWizard ==
    \/ \E status \in PermissionStatuses : FocusRefreshReturns(status)
    \/ HandleRequest
    \/ RequestReturns
    \/ RequestFails
    \/ HandleRecheck
    \/ \E status \in PermissionStatuses : CheckReturns(status)
    \/ CheckFails
    \/ FinishLoading
    \/ PressCta

SpecWizard == Init /\ [][NextWizard]_vars

(***************************************************************************)
(* SpecCapture: the system-audio capture helper.  What goes wrong while a  *)
(* sample buffer is handled is an input: the first stage that fails.       *)
(***************************************************************************)
\* the stages of stream(_:didOutputSampleBuffer:of:) that can fail, in order
Faults == {"none", "notAudio", "invalid", "noPcmBuffer", "noConverter",
           "noOutputBuffer", "conversionError", "noFrames", "noChannelData",
           "writeFailed"}

\* converter after the buffer: created on the first buffer that gets there
ConverterAfter(conv, fault) ==
    IF fault \in {"notAudio", "invalid", "noPcmBuffer"} THEN conv
    ELSE IF conv = "nil" /\ fault = "noConverter" THEN "nil"
    ELSE "set"

\* what becomes of the buffer: "written", or the guard at which the handler
\* returned
BufferOutcome(conv, fault) ==
    IF fault = "noConverter" /\ conv = "set" THEN "written"
    ELSE IF fault = "none" THEN "written"
    ELSE fault

captureOthers == <<captionVars, storeVars, callVars, eventQ, backendVars,
                   tableVars, aiVars, overlayVars, sttVars, listenerVars,
                   wizardVars,
     deliveryVars,
     listVars,
     detailVars,
     refreshVars>>

\* main(): startCapture succeeds and the run loop is entered
CaptureStarts ==
    /\ captureState = "starting"
    /\ captureState' = "running"
    /\ UNCHANGED <<converter, captureLog, stdout, stderr, captureOthers>>

\* main(): loading the content or starting the stream throws
CaptureStartFails ==
    /\ captureState = "starting"
    /\ captureState' = "failed"
    /\ stderr' = Append(stderr, "ScreenCaptureKit audio capture failed")
    /\ UNCHANGED <<converter, captureLog, stdout, captureOthers>>

\* stream(_:didOutputSampleBuffer:of:) for one sample buffer
StreamDidOutput(fault) ==
    /\ captureState = "running"
    /\ Len(captureLog) < MaxBuffers
    /\ LET outcome == BufferOutcome(converter, fault)
       IN  /\ converter' = ConverterAfter(converter, fault)
           /\ captureLog' = Append(captureLog, [fault |-> fault, outcome |-> outcome])
           /\ stdout' = IF outcome = "written"
                           THEN Append(stdout, Len(captureLog) + 1)
                           ELSE stdout
    /\ UNCHANGED <<captureState, stderr, captureOthers>>

NextCapture ==
    \/ CaptureStarts
    \/ CaptureStartFails
    \/ \E fault \in Faults : StreamDidOutput(fault)

SpecCapture == Init /\ [][NextCapture]_vars

(***************************************************************************)
(* SpecDelivery: the capture helper writing to the pipe its parent reads.  *)
(* outputHandle is FileHandle.standardOutput, left in blocking mode: a     *)
(* write returns once the pipe has taken the data.  The sample handler     *)
(* queue is serial, so no callback starts while one is in progress.        *)
(***************************************************************************)
\* buffers written and not yet read by the parent
Unread == Len(stdout) - consumed

PipeFull == Unread >= PipeCapacity

\* outputHandle.write(contentsOf:) is reached and has to wait for room
WriteWaits(conv, fault) == BufferOutcome(conv, fault) = "written" /\ PipeFull

deliveryOthers == <<captionVars, storeVars, callVars, eventQ, backendVars,
                    tableVars, aiVars, overlayVars, sttVars, listenerVars,
                    wizardVars,
     listVars,
     detailVars,
     refreshVars>>

\* the callback runs to its end for one sample buffer
StreamReturns(fault) ==
    /\ ~writer.blocked
    /\ ~WriteWaits(converter, fault)
    /\ StreamDidOutput(fault)

\* the callback reaches the write while the parent has not drained the pipe
StreamBlocks(fault) ==
    /\ captureState = "running"
    /\ Len(captureLog) < MaxBuffers
    /\ ~writer.blocked
    /\ WriteWaits(converter, fault)
    /\ converter' = ConverterAfter(converter, fault)
    /\ writer' = [blocked |-> TRUE, fault |-> fault]
    /\ UNCHANGED <<captureState, captureLog, stdout, stderr, consumed, deliveryOthers>>

\* the pipe has room again: the write completes and the callback returns
WriteCompletes ==
    /\ writer.blocked
    /\ ~PipeFull
    /\ stdout' = Append(stdout, Len(captureLog) + 1)
    /\ captureLog' = Append(captureLog, [fault |-> writer.fault, outcome |-> "written"])
    /\ writer' = WriterIdle
    /\ UNCHANGED <<captureState, converter, stderr, consumed, deliveryOthers>>

\* the parent process reads one buffer from the pipe
ParentReads ==
    /\ Unread > 0
    /\ consumed' = consumed + 1
    /\ UNCHANGED <<captureVars, writer, deliveryOthers>>

NextDelivery ==
    \/ CaptureStarts
    \/ \E fault \in Faults : StreamReturns(fault)
    \/ \E fault \in Faults : StreamBlocks(fault)
    \/ WriteCompletes
    \/ ParentReads

SpecDelivery == Init /\ [][NextDelivery]_vars

(***************************************************************************)
(* SpecList: buildSessionGroups of the session list.  A created_at string  *)
(* is modelled by what Date.parse makes of it: a negative number stands    *)
(* for a string that does not parse (-2 the empty string, -1 any other),   *)
(* a natural number for a timestamp of that instant.                       *)
(***************************************************************************)
Instants == 0..MaxInstant

CreatedAts == (-2..-1) \cup Instants

\* Number.isNaN(Date.parse(created_at || ""))
IsNaN(createdAt) == createdAt < 0

\* toDateKey(new Date(created_at)): the local calendar day of the instant
ToDateKey(instant) == instant \div InstantsPerDay

\* the key of the group of a session
KeyOf(session) ==
    IF IsNaN(session.created_at) THEN "unknown"
    ELSE ToString(ToDateKey(session.created_at))

\* the comparator sorts by created_at ascending
CompareAscending(a, b) ==
    IF IsNaN(a.created_at) /\ IsNaN(b.created_at) THEN 0
    ELSE IF IsNaN(a.created_at) THEN 1
    ELSE IF IsNaN(b.created_at) THEN -1
    ELSE a.created_at - b.created_at

\* the comparator given to sort
Compare(a, b) ==
    IF IsNaN(a.created_at) /\ IsNaN(b.created_at) THEN 0
    ELSE IF IsNaN(a.created_at) THEN 1
    ELSE IF IsNaN(b.created_at) THEN -1
    ELSE b.created_at - a.created_at

Front(seq) == SubSeq(seq, 1, Len(seq) - 1)

\* Array.prototype.sort is stable: x goes behind every element that does
\* not compare greater than it
RECURSIVE InsertSorted(_, _)
InsertSorted(x, seq) ==
    IF seq = <<>> THEN <<x>>
    ELSE IF Compare(Last(seq), x) <= 0 THEN Append(seq, x)
    ELSE Append(InsertSorted(x, Front(seq)), Last(seq))

RECURSIVE SortSessions(_)
SortSessions(seq) ==
    IF seq = <<>> THEN <<>>
    ELSE InsertSorted(Last(seq), SortSessions(Front(seq)))

\* the label of a group: today, yesterday, no data, or the localized date
LabelOf(key, now) ==
    IF key = ToString(ToDateKey(now)) THEN "today"
    ELSE IF key = ToString(ToDateKey(now) - 1) THEN "yesterday"
    ELSE IF key = "unknown" THEN "noData"
    ELSE key

\* one pass of the loop: push onto the group of the key, or set a new one
AddToGroups(groups, session, now) ==
    LET key == KeyOf(session)
    IN  IF \E i \in DOMAIN groups : groups[i].key = key
           THEN [i \in DOMAIN groups |->
                   IF groups[i].key = key
                      THEN [groups[i] EXCEPT !.sessions = Append(@, session)]
                      ELSE groups[i]]
           ELSE Append(groups, [key |-> key, label |-> LabelOf(key, now),
                                sessions |-> <<session>>])

RECURSIVE GroupSessions(_, _)
GroupSessions(sorted, now) ==
    IF sorted = <<>> THEN <<>>
    ELSE AddToGroups(GroupSessions(Front(sorted), now), Last(sorted), now)

\* buildSessionGroups: the groups returned, and the caller's array after
\* the call (the sort works on a copy)
BuildSessionGroups(sessions, now) ==
    [groups |-> GroupSessions(SortSessions(sessions), now), sessions |-> sessions]

listOthers == <<captionVars, storeVars, callVars, eventQ, backendVars,
                tableVars, aiVars, overlayVars, sttVars, listenerVars,
                wizardVars, captureVars, deliveryVars,
     detailVars,
     refreshVars>>

\* ScreenSessionList renders with the given sessions at the given time
RenderSessionList(sessions, now) ==
    /\ listInput' = sessions
    /\ listNow' = now
    /\ LET built == BuildSessionGroups(sessions, now)
       IN  /\ listGroups' = built.groups
           /\ listSessions' = built.sessions
    /\ UNCHANGED listOthers

\* get_sessions brings one more session (ids are distinct)
SessionListed(createdAt, now) ==
    /\ Len(listInput) < MaxListed
    /\ RenderSessionList(
           Append(listInput, [id |-> Len(listInput) + 1, created_at |-> createdAt]),
           now)

\* get_sessions brings the empty list
ListEmptied(now) == listInput # <<>> /\ RenderSessionList(<<>>, now)

NextList ==
    \/ \E createdAt \in CreatedAts, now \in Instants : SessionListed(createdAt, now)
    \/ \E now \in Instants : ListEmptied(now)

SpecList == Init /\ [][NextList]_vars

(***************************************************************************)
(* SpecDetail: the session detail page.  Every change of the route id      *)
(* cleans the previous run of the load effect up and starts a new one;     *)
(* get_session answers in any order.                                       *)
(***************************************************************************)
RouteIds == 1..MaxRouteIds

\* useState<SessionDetail | null>(null)
NoSession == [id |-> Null]

\* get_session(id): the detail of the session with that id
DetailOf(id) == [id |-> id]

\* a run of the effect: the id it loads, its `cancelled` flag, its state
LoadRun(id, phase) == [id |-> id, cancelled |-> FALSE, phase |-> phase]

\* the flag is never set: every answer is applied
CancelledNever(run) == FALSE

\* session-detail.tsx 28, 34, 39: if (!cancelled)
Cancelled(run) == run.cancelled

\* session-detail.tsx 43-45: the cleanup of the run in effect
CleanedUp(runs) ==
    IF runs = <<>> THEN runs
                   ELSE [runs EXCEPT ![Len(runs)].cancelled = TRUE]

detailOthers == <<captionVars, storeVars, callVars, eventQ, backendVars,
                  tableVars, aiVars, overlayVars, sttVars, listenerVars,
                  wizardVars, captureVars, deliveryVars, listVars,
     refreshVars>>

\* session-detail.tsx 16-26, 42: the effect runs for id (at mount, and after
\* the cleanup when the route id has changed)
LoadEffect(id) ==
    /\ Len(loads) < MaxLoads
    /\ loads = <<>> \/ id # routeId
    /\ routeId' = id
    /\ IF id = Null
          THEN /\ detailSession' = NoSession
               /\ detailLoading' = FALSE
               /\ loads' = Append(CleanedUp(loads), LoadRun(id, "none"))
          ELSE /\ detailLoading' = TRUE
               /\ loads' = Append(CleanedUp(loads), LoadRun(id, "pending"))
               /\ UNCHANGED detailSession
    /\ UNCHANGED detailOthers

\* session-detail.tsx 27-31, 38-41: get_session resolved
GetSessionResolves(i) ==
    /\ loads[i].phase = "pending"
    /\ IF Cancelled(loads[i])
          THEN /\ loads' = [loads EXCEPT ![i].phase = "dropped"]
               /\ UNCHANGED <<detailSession, detailLoading>>
          ELSE /\ loads' = [loads EXCEPT ![i].phase = "ok"]
               /\ detailSession' = DetailOf(loads[i].id)
               /\ detailLoading' = FALSE
    /\ UNCHANGED <<routeId, detailOthers>>

\* session-detail.tsx 32-41: get_session rejected
GetSessionRejects(i) ==
    /\ loads[i].phase = "pending"
    /\ IF Cancelled(loads[i])
          THEN /\ loads' = [loads EXCEPT ![i].phase = "dropped"]
               /\ UNCHANGED <<detailSession, detailLoading>>
          ELSE /\ loads' = [loads EXCEPT ![i].phase = "err"]
               /\ detailSession' = NoSession
               /\ detailLoading' = FALSE
    /\ UNCHANGED <<routeId, detailOthers>>

NextDetail ==
    \/ \E id \in RouteIds \cup {Null} : LoadEffect(id)
    \/ \E i \in DOMAIN loads : GetSessionResolves(i)
    \/ \E i \in DOMAIN loads : GetSessionRejects(i)

SpecDetail == Init /\ [][NextDetail]_vars

(***************************************************************************)
(* SpecRefresh: the session list of SessionsPage.  refreshSessions is      *)
(* called at mount and for every recording-state event; the calls are      *)
(* answered by the backend and their responses reach the window in any     *)
(* order.                                                                  *)
(***************************************************************************)
\* a get_sessions call and the list it was answered with
ListCall(phase, list) == [phase |-> phase, list |-> list]

\* sessions.tsx 32-34: refreshSessions up to `await getSessions()`
RefreshSessions(calls) == Append(calls, ListCall("pending", <<>>))

refreshOthers == <<captionVars, storeVars, callVars, eventQ, backendVars,
                   tableVars, aiVars, overlayVars, sttVars, listenerVars,
                   wizardVars, captureVars, deliveryVars, listVars, detailVars>>

\* sessions.tsx 41-43: the effect that loads the list at mount
RefreshOnMount ==
    /\ listCalls = <<>>
    /\ listCalls' = RefreshSessions(listCalls)
    /\ UNCHANGED refreshOthers

\* a recording-state event reaches the main window: the listener of
\* useTauriEvents, then the listener of SessionsPage (sessions.tsx 48-52)
RefreshOnRecordingState ==
    /\ listCalls # <<>>
    /\ Len(listCalls) < MaxListCalls
    /\ eventQ # <<>>
    /\ Head(eventQ).kind = "recording-state"
    /\ OnRecordingState(Head(eventQ))
    /\ eventQ' = Tail(eventQ)
    /\ listCalls' = RefreshSessions(listCalls)
    /\ UNCHANGED <<stt, arrived, storeSessions, startError, callVars,
                   backendVars, tableVars, aiVars, overlayVars, sttVars,
                   listenerVars, wizardVars, captureVars, deliveryVars, listVars,
                   detailVars>>

\* get_sessions reads the table and answers call i
GetSessionsAnswers(i) ==
    /\ listCalls[i].phase = "pending"
    /\ listCalls' = [listCalls EXCEPT ![i] = ListCall("answered", SessionList)]
    /\ UNCHANGED refreshOthers

\* get_sessions fails: refreshSessions logs the error (sessions.tsx 36-38)
GetSessionsRejects(i) ==
    /\ listCalls[i].phase = "pending"
    /\ listCalls' = [listCalls EXCEPT ![i].phase = "failed"]
    /\ UNCHANGED refreshOthers

\* sessions.tsx 35: setSessions(list) when the response of call i arrives
SetSessions(i) ==
    /\ listCalls[i].phase = "answered"
    /\ storeSessions' = listCalls[i].list
    /\ listCalls' = [listCalls EXCEPT ![i].phase = "done"]
    /\ UNCHANGED <<captionVars, activeSessionId, recording, connection, startError,
                   callVars, eventQ, backendVars, tableVars, aiVars, overlayVars,
                   sttVars, listenerVars, wizardVars, captureVars, deliveryVars,
                   listVars, detailVars>>

NextRefresh ==
    \/ RefreshOnMount
    \/ SessionStarts
    \/ SessionStops
    \/ RefreshOnRecordingState
    \/ \E i \in DOMAIN listCalls : GetSessionsAnswers(i)
    \/ \E i \in DOMAIN listCalls : GetSessionsRejects(i)
    \/ \E i \in DOMAIN listCalls : SetSessions(i)

SpecRefresh == Init /\ [][NextRefresh]_vars

(***************************************************************************)
(* Caption log properties                                                  *)
(***************************************************************************)
Indices(seq) == 1..Len(seq)

IsFinal(e) == e.status = "final"

IsInterim(e) == e.status = "interim"

\* the utterances of source s whose final event has arrived
Finalised(s) == {arrived[i].text[1] : i \in {j \in Indices(arrived) :
                    arrived[j].source = s /\ IsFinal(arrived[j])}}

\* positions of the log that hold an entry of utterance u of source s
EntriesOf(s, u) == {i \in Indices(captions) :
                    captions[i].source = s /\ captions[i].text[1] = u}

\* C1: once the final event of an utterance has been applied, the log holds
\* exactly one entry of that utterance and it is the final text; no interim
\* text of that utterance is left.
C1_OneFinalEntryPerUtterance ==
    \A s \in Sources : \A u \in Finalised(s) :
        /\ Cardinality(EntriesOf(s, u)) = 1
        /\ \A i \in EntriesOf(s, u) : captions[i] = CaptionEvent(s, "final", <<u, 0>>)

\* an utterance received two interims, then an event of the other source,
\* then its final
C1_Witness ==
    \E i, j, k, l \in Indices(arrived) :
        /\ i < j /\ j < k /\ k < l
        /\ arrived[i].source = arrived[l].source
        /\ arrived[j].source = arrived[l].source
        /\ arrived[k].source # arrived[l].source
        /\ IsInterim(arrived[i]) /\ IsInterim(arrived[j]) /\ IsFinal(arrived[l])
        /\ arrived[i].text[1] = arrived[l].text[1]
        /\ arrived[j].text[1] = arrived[l].text[1]

\* the event applied by a step that delivers a caption
Delivered(before, after) == Len(after) = Len(before) + 1

\* the pending interim captions of source s held in the log
PendingInterim(caps, s) ==
    {caps[i] : i \in {j \in Indices(caps) : caps[j].source = s /\ IsInterim(caps[j])}}

\* C2: one pending-interim slot per source: a caption event of one source
\* leaves the pending interim caption of the other source as it was.
C2_PerSourceInterimSlot ==
    [][Delivered(arrived, arrived') =>
          \A s \in Sources \ {Last(arrived').source} :
              PendingInterim(captions', s) = PendingInterim(captions, s)]_vars

FinalsOf(seq) == SelectSeq(seq, IsFinal)

\* the last event of every source that has sent one is a final
AllSourcesFinalised ==
    /\ arrived # <<>>
    /\ \A s \in Sources :
          LET mine == SelectSeq(arrived, LAMBDA e : e.source = s)
          IN  mine # <<>> => IsFinal(Last(mine))

\* C3: when the last event of every source is a final, the log is exactly
\* the final events, each once, in arrival order, with no interim entry.
C3_LogIsFinalsInArrivalOrder ==
    AllSourcesFinalised => captions = FinalsOf(arrived)

\* MIC interim, MIC final, SYS final (the scenario), both sources finalised
C3_Witness ==
    /\ AllSourcesFinalised
    /\ Len(arrived) >= 3
    /\ \E i \in Indices(arrived) : IsInterim(arrived[i])
    /\ {arrived[i].source : i \in Indices(arrived)} = Sources

(***************************************************************************)
(* Session lifecycle properties                                            *)
(***************************************************************************)
AtMostOneActive == Cardinality(ActiveIds) <= 1

\* the backend answers a start_recording call
StartAnswered == startCall.phase = "pending" /\ startCall'.phase # "pending"

\* the window runs the catch block of handleStartKanpe
StartCatch == startCall.phase = "err" /\ startCall'.phase = "idle"

C5_RejectedStartMutatesNothing ==
    [][(StartCatch /\ startCall.clean) => StoreSnapshot' = startCall.before]_vars

NoInterim(caps) == \A i \in Indices(caps) : ~IsInterim(caps[i])

\* the window processes a 'stopped' recording-state event
StoppedProcessed ==
    /\ eventQ # <<>>
    /\ Head(eventQ).kind = "recording-state"
    /\ Head(eventQ).state = "stopped"
    /\ eventQ' = Tail(eventQ)

\* C7: after the 'stopped' event has been processed the caption log holds
\* no interim entry.
C7_NoInterimAfterStop ==
    [][StoppedProcessed => NoInterim(captions')]_vars

(***************************************************************************)
(* Assist pane properties                                                  *)
(***************************************************************************)
\* send_ai_query of slot k returns in this step, the provider having answered
ProviderAnswered(k) ==
    /\ aiCall[k].phase = "sent"
    /\ aiCall'[k].phase = "answered"
    /\ aiCall'[k].llm = "ok"

\* exactly one ai_logs row is added, for session sid with the given type
OneLogAppended(sid, type) ==
    /\ Cardinality(dbAiLogs' \ dbAiLogs) = 1
    /\ dbAiLogs \subseteq dbAiLogs'
    /\ \A row \in dbAiLogs' \ dbAiLogs : row.session_id = sid /\ row.type = type

\* C8: every send_ai_query the provider answers, for each quick action and
\* for a free-form query, succeeds, appends exactly one AiLogEntry of the
\* request's type (the schema accepting it) and adds 1 to ai_assists.
C8_AiLogAppendedForEveryType ==
    [][\A k \in AiSlots : ProviderAnswered(k) =>
          /\ aiCall'[k].outcome = "response"
          /\ OneLogAppended(aiCall[k].sid, AiLogTypeOf(aiCall[k].action))
          /\ dbSessions'[aiCall[k].sid].ai_assists
                = dbSessions[aiCall[k].sid].ai_assists + 1]_vars

AllAiIdle == \A k \in AiSlots : aiCall[k].phase = "idle"

\* the handler of slot k resumes after sendAiQuery rejected
RejectionHandled(k) ==
    /\ aiCall[k].phase = "answered"
    /\ aiCall[k].outcome # "response"
    /\ aiCall'[k] # aiCall[k]

\* C9: a handler invocation issues at most one sendAiQuery call; when the
\* call rejects, exactly one assistant message with the error text is
\* appended and the step issues no further call.
C9_FailureReportedNotRetried ==
    /\ [](\A k \in AiSlots : aiCall[k].sent <= 1)
    /\ [][\A k \in AiSlots : RejectionHandled(k) =>
            /\ messages' = Append(messages, FailureMessage(aiCall[k].outcome))
            /\ \A j \in AiSlots : aiCall'[j].phase = "sent" => aiCall[j] = aiCall'[j]]_vars

\* the provider failed and the error text is in the chat, nothing in flight
C9_Witness ==
    /\ AllAiIdle
    /\ \E i \in Indices(messages) : messages[i] = FailureMessage("ProviderError")

\* the handler of slot k resumes with no session id resolved
UnresolvedHandled(k) ==
    /\ aiCall[k].phase = "hydrated"
    /\ HydratedId(aiCall[k]) = Null
    /\ aiCall'[k] # aiCall[k]

\* C10: sendAiQuery is never called with a null session id; when no session
\* id is resolved the handler appends the no-session text, sends nothing and
\* does not set the generating flag.
C10_NoSessionNoQuery ==
    /\ [](\A k \in AiSlots :
            aiCall[k].phase \in {"sent", "answered"} => aiCall[k].sid # Null)
    /\ [][\A k \in AiSlots : UnresolvedHandled(k) =>
            /\ messages' = Append(messages, NoSessionMessage)
            /\ aiCall'[k] = AiIdle
            /\ isGenerating' = isGenerating]_vars

\* a request ended with the no-session text and the flag is not set
C10_Witness ==
    /\ AllAiIdle
    /\ ~isGenerating
    /\ messages # <<>>
    /\ Last(messages) = NoSessionMessage

(***************************************************************************)
(* Overlay window properties                                               *)
(***************************************************************************)
\* a step of toggleRecording or of the pause / resume command it issued
ToggleStep == toggleCall' # toggleCall

\* the overlay processes a recording-state event whose state is in states
Processes(states) ==
    /\ Len(processed') = Len(processed) + 1
    /\ Last(processed').state \in states

\* C11: issuing pause_recording / resume_recording and processing the
\* 'paused' and 'recording' events they announce leave the connection status
\* of the window, and the STT connection of the backend, exactly as they
\* were; of the overlay store only recording changes.
C11_PauseResumeKeepsConnection ==
    [][(ToggleStep \/ Processes({"paused", "recording"})) =>
          /\ connection' = connection
          /\ <<sttConn, retries>>' = <<sttConn, retries>>]_vars

\* while connected, a pause and then the resume of the same session have
\* been processed
C11_Witness ==
    /\ connection = "connected"
    /\ sttConn = "streaming"
    /\ recording = "recording"
    /\ \E i \in Indices(processed) :
          /\ i + 1 = Len(processed)
          /\ processed[i].state = "paused"
          /\ processed[i + 1].state = "recording"
          /\ processed[i + 1].sessionId = processed[i].sessionId

(***************************************************************************)
(* Connection status properties                                            *)
(***************************************************************************)
\* the session the window last heard of has been stopped
StopHeard == processed # <<>> /\ Last(processed).state = "stopped"

\* every captured frame is forwarded, waiting in the replay buffer, or lost
FramesAccounted == frames.captured = frames.forwarded + replay + frames.lost

\* C12: a socket closure while Streaming takes the STT client to
\* Reconnecting; the status the window shows leaves connected for
\* disconnected only when the session was stopped, and otherwise becomes
\* disconnected only from reconnecting (retries exhausted); a successful
\* retry forwards every frame of the replay buffer, loses none, and
\* announces connected.
C12_ReconnectingBeforeDisconnected ==
    /\ []FramesAccounted
    /\ [][/\ (connection = "connected" /\ connection' = "disconnected") => StopHeard
          /\ (sttConn = "streaming" /\ sttConn' # "streaming" /\ ActiveIds # {}) =>
                sttConn' = "reconnecting"
          /\ (sttConn # "disconnected" /\ sttConn' = "disconnected") =>
                \/ sttConn = "reconnecting" /\ retries = MaxRetries
                \/ ActiveIds = {}
          /\ (sttConn = "reconnecting" /\ sttConn' = "streaming") =>
                /\ frames'.forwarded = frames.forwarded + replay
                /\ frames'.lost = frames.lost
                /\ replay' = 0
                /\ Last(eventQ') = ConnectionEvent("connected")]_vars

\* the socket closed, a frame was buffered, the retry succeeded and the
\* window shows connected again
C12_Witness ==
    /\ frames.replayed > 0
    /\ sttConn = "streaming"
    /\ eventQ = <<>>
    /\ connection = "connected"

(***************************************************************************)
(* Stop properties                                                         *)
(***************************************************************************)
\* handleStopSession has learnt that neither the window nor the backend
\* knows an active session
NothingToStop == overlayStop.phase = "hydrated" /\ overlayStop.id = Null

\* a step of handleStopSession or of a command it awaits
StopStep == overlayStop' # overlayStop

\* C13: a stop requested when no active session id is known to the window
\* or the backend ends without error and changes nothing (the window is
\* hidden, stop_recording is not called); a stop_recording for a session
\* already stopped reports success; a 'stopped' event processed right after
\* a 'stopped' event leaves activeSessionId, recording and captions as the
\* first left them.
C13_StopIsIdempotent ==
    [][/\ (NothingToStop /\ StopStep) =>
             /\ overlayStop' = [StopIdle EXCEPT !.outcome = "hidden"]
             /\ UNCHANGED <<activeSessionId, recording, captions, dbSessions, eventQ>>
       /\ (overlayStop.phase = "stopping" /\ overlayStop.id \notin ActiveIds
             /\ StopStep) =>
             /\ overlayStop'.phase = "stopped"
             /\ UNCHANGED <<dbSessions, backendRec, sttConn>>
       /\ (Processes({"stopped"}) /\ StopHeard /\ activeSessionId = Null
             /\ recording = "paused") =>
             UNCHANGED <<activeSessionId, recording, captions>>]_vars

\* a stop found nothing to stop and hid the window, after two 'stopped'
\* events of one session were processed in a row
C13_Witness ==
    /\ overlayStop.outcome = "hidden"
    /\ \E i \in Indices(processed) :
          /\ i + 1 \in Indices(processed)
          /\ processed[i].state = "stopped"
          /\ processed[i + 1] = processed[i]

\* the sessions whose 'stopped' event the window has processed
StoppedSeen ==
    {processed[i].sessionId : i \in {j \in Indices(processed) :
                                        processed[j].state = "stopped"}}

\* toggleRecording issues pause_recording or resume_recording
ToggleIssued == toggleCall'.n = toggleCall.n + 1

\* C14: once the 'stopped' event of a session has been processed, the
\* window never holds that session as activeSessionId again and never
\* issues pause_recording or resume_recording for it.
C14_StoppedIsTerminal ==
    /\ [](activeSessionId \notin StoppedSeen)
    /\ [][ToggleIssued => toggleCall'.id \notin StoppedSeen]_vars

(***************************************************************************)
(* Requests in flight at stop                                              *)
(***************************************************************************)
\* session sid has been stopped
SessionStopped(sid) == sid \in DOMAIN dbSessions /\ ~dbSessions[sid].is_active

\* the quick-action request of slot k is awaiting send_ai_query and its
\* session has been stopped
InFlightStopped(k) ==
    /\ aiCall[k].phase = "sent"
    /\ aiCall[k].action \in RightPaneActions
    /\ SessionStopped(aiCall[k].sid)

\* the handler of slot k resumes with the response of a stopped session
StoppedResponseHandled(k) ==
    /\ aiCall[k].phase = "answered"
    /\ aiCall[k].outcome = "response"
    /\ SessionStopped(aiCall[k].sid)
    /\ aiCall'[k] # aiCall[k]

ConnectionProcessed ==
    /\ eventQ # <<>>
    /\ Head(eventQ).kind = "connection"
    /\ eventQ' = Tail(eventQ)

\* C16: the connection status the window holds starts as disconnected,
\* changes only in a step that processes a 'connection' event, and after
\* such a step equals the status the event carries.
C16_ConnectionSetOnlyByEvents ==
    /\ connection = "disconnected"
    /\ [][connection' # connection => ConnectionProcessed]_vars
    /\ [][ConnectionProcessed => connection' = Head(eventQ).status]_vars

\* the status was taken from events twice while commands and
\* recording-state events were handled in between
C16_Witness ==
    /\ connection = "reconnecting"
    /\ toggleCall.n > 0
    /\ Len(processed) > 0

(***************************************************************************)
(* Listener properties                                                     *)
(***************************************************************************)
\* run i of an effect has been cleaned up
Torn(i) == i \in DOMAIN effects /\ effects[i].torn

\* no listener of run i is registered or about to be
AllReleased(i) ==
    /\ i \in DOMAIN effects
    /\ \A k \in DOMAIN effects[i].regs : effects[i].regs[k] = "released"

\* C17: after the cleanup of an effect has run, every listener the effect
\* registered is eventually unregistered, also when its listen() promise
\* resolves after the cleanup.
C17_ListenersReleasedOnTeardown ==
    \A i \in 1..MaxMounts : Torn(i) ~> AllReleased(i)

\* every listener of the hook is released although a promise was still
\* pending when the cleanup ran
C17_Witness ==
    \E i \in DOMAIN effects :
        /\ effects[i].component = "useTauriEvents"
        /\ effects[i].awaiting
        /\ AllReleased(i)

(***************************************************************************)
(* Permission wizard properties                                            *)
(***************************************************************************)
\* C19: the step index stays within 0..2; it changes only by advancing one
\* step while the permission of the step shown is granted, which is the
\* only time the Next / Get Started button can be pressed; and onComplete
\* runs only when the button can be pressed and all three permissions held
\* are granted.
C19_WizardAdvancesOnlyWhenGranted ==
    /\ [](currentStep \in Steps)
    /\ [][currentStep' # currentStep =>
            /\ currentStep' = currentStep + 1
            /\ permissions[currentStep] = "granted"]_vars
    /\ [][onboardingComplete' # onboardingComplete =>
            /\ onboardingComplete'
            /\ permissions[currentStep] = "granted"
            /\ \A i \in Steps : permissions[i] = "granted"]_vars

\* the wizard was walked to its last step and completed there
C19_Witness ==
    /\ onboardingComplete
    /\ currentStep = 2

(***************************************************************************)
(* Audio conversion properties                                             *)
(***************************************************************************)
\* the handler has just returned for a sample buffer
BufferHandled == Len(captureLog') = Len(captureLog) + 1

\* the buffer handled before this one failed to convert
AfterConversionError ==
    /\ captureLog # <<>>
    /\ Last(captureLog).outcome = "conversionError"

\* C20: a buffer whose conversion fails is dropped with nothing written for
\* it, the buffer after it is handled as any other, and a second
\* consecutive conversion failure raises CaptureInterrupted.
C20_ConversionFailureEscalates ==
    /\ [][(BufferHandled /\ Last(captureLog').outcome = "conversionError") =>
            /\ stdout' = stdout
            /\ captureState' = "running"]_vars
    /\ [][(BufferHandled /\ AfterConversionError /\ Last(captureLog').fault = "none") =>
            stdout' = Append(stdout, Len(captureLog'))]_vars
    /\ [][(BufferHandled /\ AfterConversionError
             /\ Last(captureLog').outcome = "conversionError") =>
            \E i \in DOMAIN stderr' : stderr'[i] = "CaptureInterrupted"]_vars

(***************************************************************************)
(* Frame delivery properties                                               *)
(***************************************************************************)
\* C21: the capture callback never waits for the consumer: a buffer that
\* finds the pipe full does not keep the callback from returning.
C21_DeliveryNeverBlocks == ~writer.blocked

(***************************************************************************)
(* Recording toggle properties                                             *)
(***************************************************************************)
\* the window processes a recording-state event
RecordingStateProcessed == Len(processed') = Len(processed) + 1

\* C22: toggleRecording issues a command only when an active session is
\* known, for that session: pause_recording when the displayed state is
\* recording, resume_recording when it is paused.  No step of the toggle
\* changes the displayed state or the session store; the displayed state
\* changes only when a recording-state event is processed, to the state the
\* event announces.
C22_ToggleSwitchesRecording ==
    /\ [][ToggleIssued =>
            /\ activeSessionId # Null
            /\ toggleCall'.id = activeSessionId
            /\ recording = "recording" => toggleCall'.phase = "pausing"
            /\ recording = "paused" => toggleCall'.phase = "resuming"]_vars
    /\ [][ToggleStep =>
            <<recording, activeSessionId, captions>>' =
                <<recording, activeSessionId, captions>>]_vars
    /\ [][recording' # recording =>
            /\ RecordingStateProcessed
            /\ recording' = RecordingAfter(Last(processed'))]_vars

\* the second toggle found the display paused and issued resume_recording
C22_Witness ==
    /\ toggleCall.n = 2
    /\ toggleCall.phase = "resuming"
    /\ toggleCall.id = activeSessionId
    /\ recording = "paused"
    /\ \E i \in Indices(processed) : processed[i].state = "paused"

(***************************************************************************)
(* Chat properties                                                         *)
(***************************************************************************)
NumAssistant == Len(SelectSeq(messages, LAMBDA m : m.role = "assistant"))

\* C23: the chat only grows by appending; the assistant messages never
\* outnumber the user messages; every user message is eventually answered
\* by one assistant message, so that the two counts meet again; and the
\* generating flag, once set, eventually returns to false.
C23_EveryMessageAnswered ==
    /\ [][messages' # messages =>
            /\ Len(messages') = Len(messages) + 1
            /\ SubSeq(messages', 1, Len(messages)) = messages]_vars
    /\ [](NumAssistant <= NumUser)
    /\ (NumUser # NumAssistant) ~> (NumUser = NumAssistant)
    /\ isGenerating ~> ~isGenerating

\* a quick action or a query was answered with the response
C23_Witness ==
    /\ Len(messages) = 2
    /\ messages[1].role = "user"
    /\ messages[2] = AssistantMessage("response")
    /\ ~isGenerating
    /\ AllAiIdle

(***************************************************************************)
(* Session list properties                                                 *)
(***************************************************************************)
\* the sessions of all groups, in display order
RECURSIVE Flatten(_)
Flatten(groups) ==
    IF groups = <<>> THEN <<>>
    ELSE Flatten(Front(groups)) \o Last(groups).sessions

\* created_at descending, the sessions whose date does not parse last
NewestFirst(seq) ==
    \A i, j \in DOMAIN seq :
        (i < j /\ ~IsNaN(seq[j].created_at)) =>
            /\ ~IsNaN(seq[i].created_at)
            /\ seq[i].created_at >= seq[j].created_at

\* C24: buildSessionGroups partitions the sessions by creation date: every
\* session of the input is in exactly one group, the sessions of a group
\* share its date key and no two groups share a key (one 'unknown' group
\* for the dates that do not parse), the sessions in display order are
\* newest first with the unparsable dates last, which also orders the
\* groups by their most recent member, and the input array is as it was.
C24_GroupsPartitionByDate ==
    LET flat == Flatten(listGroups)
    IN  /\ Len(flat) = Len(listInput)
        /\ \A i \in DOMAIN listInput :
              Cardinality({j \in DOMAIN flat : flat[j] = listInput[i]}) = 1
        /\ \A g \in DOMAIN listGroups :
              /\ listGroups[g].sessions # <<>>
              /\ \A i \in DOMAIN listGroups[g].sessions :
                    KeyOf(listGroups[g].sessions[i]) = listGroups[g].key
              /\ \A h \in DOMAIN listGroups :
                    listGroups[h].key = listGroups[g].key => h = g
        /\ NewestFirst(flat)
        /\ listSessions = listInput

\* three sessions given oldest first, two of one day and one without a
\* date, came out as two groups
C24_Witness ==
    /\ Len(listInput) = 3
    /\ IsNaN(listInput[1].created_at)
    /\ ~IsNaN(listInput[2].created_at)
    /\ ~IsNaN(listInput[3].created_at)
    /\ listInput[2].created_at < listInput[3].created_at
    /\ Len(listGroups) = 2
    /\ listGroups[2].key = "unknown"
    /\ Len(listGroups[1].sessions) = 2

(***************************************************************************)
(* Caption log invariants                                                  *)
(***************************************************************************)
\* C25: the log holds at most one interim entry, and only as its last
\* entry; a final entry stays at its position with its content through
\* every addCaption (clearCaptions alone empties the log).
C25_InterimOnlyLastFinalsKept ==
    /\ [](\A i \in Indices(captions) : IsInterim(captions[i]) => i = Len(captions))
    /\ [][Delivered(arrived, arrived') =>
            \A i \in Indices(captions) : IsFinal(captions[i]) =>
                /\ i <= Len(captions')
                /\ captions'[i] = captions[i]]_vars

\* a final entry is followed by the interim entry that replaced an earlier
\* interim of the log
C25_Witness ==
    /\ Len(captions) = 2
    /\ IsFinal(captions[1])
    /\ IsInterim(captions[2])
    /\ Len(arrived) >= 3
    /\ IsInterim(arrived[Len(arrived) - 1])

(***************************************************************************)
(* Overlapping requests                                                    *)
(***************************************************************************)
\* the handlers awaiting send_ai_query
InFlight == {k \in RaceSlots : aiCall[k].phase = "sent"}

\* C26: at most one send_ai_query call of the overlay is in flight at any
\* time.
C26_OneQueryInFlight == Cardinality(InFlight) <= 1

(***************************************************************************)
(* The caption log across sessions                                         *)
(***************************************************************************)
\* the sessions whose captions are in the log
LoggedSessions == {SessionOf(captions[i]) : i \in DOMAIN captions}

\* C27: the caption log never holds captions of two different sessions.
C27_LogOfOneSession == Cardinality(LoggedSessions) <= 1

(***************************************************************************)
(* The session detail page                                                 *)
(***************************************************************************)
\* run i of the effect settles in this step after the route id had changed
SupersededSettles(i) ==
    /\ i \in DOMAIN loads
    /\ i < Len(loads)
    /\ loads[i].phase = "pending"
    /\ loads'[i].phase # "pending"

\* the run for the route id in effect
CurrentLoad == loads[Len(loads)]

\* C28: the answer of a superseded get_session changes neither the session
\* shown nor the loading flag, and once the get_session of the route id in
\* effect has settled the page shows that session (nothing when it failed)
\* with loading false.
C28_NoSupersededDetail ==
    /\ [][\A i \in 1..MaxLoads :
            SupersededSettles(i) => UNCHANGED <<detailSession, detailLoading>>]_vars
    /\ [](loads # <<>> =>
            /\ CurrentLoad.phase = "ok" =>
                  detailSession = DetailOf(routeId) /\ ~detailLoading
            /\ CurrentLoad.phase = "err" =>
                  detailSession = NoSession /\ ~detailLoading)

\* the answer for the first id came after the route had changed, and the
\* page shows the second
C28_Witness ==
    /\ Len(loads) >= 2
    /\ loads[1].phase = "dropped"
    /\ loads[1].id # routeId
    /\ CurrentLoad.phase = "ok"
    /\ detailSession = DetailOf(routeId)

(***************************************************************************)
(* The session list                                                        *)
(***************************************************************************)
\* no event is queued and every get_sessions call has been dealt with
RefreshQuiet ==
    /\ eventQ = <<>>
    /\ listCalls # <<>>
    /\ \A i \in DOMAIN listCalls : listCalls[i].phase \in {"done", "failed"}

\* the get_sessions call issued last
LastListCall == listCalls[Len(listCalls)]

\* C29: once the events and the get_sessions responses have been processed
\* the sessions of the store are the result of the call issued last.
C29_ListConverges ==
    (RefreshQuiet /\ LastListCall.phase = "done") =>
        storeSessions = LastListCall.list

(***************************************************************************)
(* The wizard's button                                                     *)
(***************************************************************************)
\* what the onClick of the button does in the state: it completes the
\* onboarding or moves to the next step
CtaActs == AllGranted \/ currentStep < Cardinality(Steps) - 1

\* C30: whenever the Next / Get Started button is enabled, pressing it
\* advances the step or completes the onboarding.
C30_CtaNeverDeadEnds == (~onboardingComplete /\ ~CtaDisabled) => CtaActs

====
